---------------------------- MODULE Spec2Model ----------------------------
(***************************************************************************)
(* Model of qobuz-dl-go's album download engine                            *)
(* (internal/engine/engine.go, Engine.DownloadAlbum): the orchestrator,    *)
(* the worker pool, the display goroutine and the one mutex (stateMu)      *)
(* guarding threadTasks / threadProgress / trackStates.                    *)
(*                                                                         *)
(* Go slices are 0-based and the idle slot value is -1; the model uses     *)
(* 1-based sequences and 0 for the idle slot.                              *)
(*                                                                         *)
(* Specifications:                                                         *)
(*   Spec       DownloadAlbum with its goroutines and the mutex;           *)
(*   SpecRuns   DownloadAlbum called twice on one directory, with file     *)
(*              names, the cover step and the planning loop;               *)
(*   SpecConc   New / SetConcurrency and the number of workers;            *)
(*   SpecTrack  DownloadTrack;                                             *)
(*   SpecCodec  VorbisComment: Add, Marshal, ParseVorbisComment            *)
(*              (flac_metadata.go);                                        *)
(*   SpecFlac   Tagger.WriteFlacTags on files on disk (tagger.go);         *)
(*   SpecNames  sanitizeFilename;                                          *)
(*   SpecPicture  Picture.Marshal;                                         *)
(*   SpecFormat   the file name of a download and the tag writer chosen;   *)
(*   FairSpec     Spec under fair scheduling;                              *)
(*   SpecDisplay  displayState: clearAndRender and renderFinal;            *)
(*   SpecLine     buildThreadLine.                                         *)
(***************************************************************************)
EXTENDS Integers, Sequences, FiniteSets, TLC

\* ------------------------------------------------------------ bounds

\* Number of tracks of the album (album.Tracks.Items).
MaxTracks == 2
\* The values given to SetConcurrency (the --threads flag): 0 is clamped to 1.
ThreadFlags == {0, 1, 2}
\* Largest byte count the transport reports for one transfer.
MaxBytes == 3

\* Content-Length values a response may carry (0: not known).
ContentLengths == {0, 2}

\* ------------------------------------------------------------ constants

StatusQueued == "Queued"
StatusDownloading == "Downloading"
StatusComplete == "Complete"
StatusFailed == "Failed"

Terminal == {StatusComplete, StatusFailed}

\* Thread identities, used as the holder of stateMu.
NoThread == <<>>
MainThread == <<"main">>
DisplayThread == <<"display">>
Worker(w) == <<"worker", w>>

\* ------------------------------------------------------------ pure functions

Min(a, b) == IF a < b THEN a ELSE b

\* Variant: SetConcurrency without the cap at 10.
SetConcurrencyNoCap(n) == IF n < 1 THEN 1 ELSE n

\* Engine.SetConcurrency: clamp to [1, 10].
SetConcurrency(n) == IF n < 1 THEN 1 ELSE IF n > 10 THEN 10 ELSE n

\* Variant: one worker per task, whatever the configured concurrency.
NumWorkersPerTask(conc, ntasks) == ntasks

\* numWorkers := e.Concurrency; if numWorkers > len(tasks) { numWorkers = len(tasks) }
NumWorkers(conc, ntasks) ==
    IF conc > ntasks THEN ntasks ELSE conc

\* Variant: the percentage without the cap at 100.
PercentUncapped(downloaded, contentLength) ==
    (downloaded * 100) \div contentLength

\* percent := int(float64(downloaded) / float64(contentLength) * 100), capped at
\* 100.  For the byte counts and lengths of this model the float64 expression
\* truncates to the same integer as the exact quotient.
Percent(downloaded, contentLength) ==
    LET p == (downloaded * 100) \div contentLength
    IN IF p > 100 THEN 100 ELSE p

\* Variant: every track from i on is planned, whether its file exists or not.
PlanTasksAll(i, exists) == [k \in 1..(MaxTracks - i + 1) |-> i + k - 1]

\* The planning loop: the tracks, in album order, whose destination file does
\* not exist yet.
RECURSIVE PlanTasks(_, _)
PlanTasks(i, exists) ==
    IF i > MaxTracks THEN <<>>
    ELSE IF i \in exists THEN PlanTasks(i + 1, exists)
    ELSE <<i>> \o PlanTasks(i + 1, exists)

\* ------------------------------------------------------------ file names

\* A string is a sequence of bytes; the model's bytes are one-character strings.

\* illegalCharsRegex: [<>:"/\\|?*\x00-\x1f] (of the control bytes the model
\* has the tab).
IllegalChars == {"<", ">", ":", "\"", "/", "\\", "|", "?", "*", "\t"}

\* The byte strings.TrimSpace strips that the model has: the space (the tab is
\* replaced before the trim runs).
SpaceChars == {" "}

\* len(name) > 200: the cap of sanitizeFilename.
NameCap == 200

\* Variant: nothing is replaced.
ReplaceNone(name) == name

\* illegalCharsRegex.ReplaceAllString(name, "_")
ReplaceIllegal(name) ==
    [i \in 1..Len(name) |-> IF name[i] \in IllegalChars THEN "_" ELSE name[i]]

\* strings.TrimSpace(name)
TrimSpace(name) ==
    LET kept == { i \in 1..Len(name) : name[i] \notin SpaceChars }
    IN IF kept = {} THEN <<>>
       ELSE SubSeq(name,
                   CHOOSE i \in kept : \A j \in kept : i <= j,
                   CHOOSE i \in kept : \A j \in kept : i >= j)

\* sanitizeFilename: replace, trim, cut to NameCap bytes.
sanitizeFilename(name) ==
    LET trimmed == TrimSpace(ReplaceIllegal(name))
    IN IF Len(trimmed) > NameCap THEN SubSeq(trimmed, 1, NameCap) ELSE trimmed

\* One decimal digit.
Digit(d) == <<"0", "1", "2", "3", "4", "5", "6", "7", "8", "9">>[d + 1]

\* fmt's %d of a non-negative number.
RECURSIVE Itoa(_)
Itoa(n) == IF n < 10 THEN <<Digit(n)>> ELSE Itoa(n \div 10) \o <<Digit(n % 10)>>

\* fmt's %02d of a non-negative number.
Pad2(n) == IF n < 10 THEN <<"0">> \o Itoa(n) ELSE Itoa(n)

\* trackFileName := sanitizeFilename(fmt.Sprintf("%02d. %s", track.TrackNumber,
\* track.Title)) + ".flac"; trackPath joins it to albumDir, the same directory
\* for every track, so the file name stands for the path.
TrackFileName(track) ==
    sanitizeFilename(Pad2(track.TrackNumber) \o <<".", " ">> \o track.Title)
        \o <<".", "f", "l", "a", "c">>

\* coverPath := filepath.Join(dir, "cover.jpg")
CoverFileName == <<"c", "o", "v", "e", "r", ".", "j", "p", "g">>

\* ------------------------------------------------------------ tag codec

\* flac_metadata.go.  A byte is a number in 0..255; a string and a buffer are
\* sequences of bytes.

\* Variant: the length field written big-endian.
BE32(n) ==
    << (n \div 16777216) % 256, (n \div 65536) % 256, (n \div 256) % 256, n % 256 >>

\* binary.Write(buf, binary.LittleEndian, uint32(n))
LE32(n) ==
    << n % 256, (n \div 256) % 256, (n \div 65536) % 256, (n \div 16777216) % 256 >>

\* binary.Read(buf, binary.LittleEndian, &v) on the four bytes b.
FromLE32(b) == b[1] + 256 * b[2] + 65536 * b[3] + 16777216 * b[4]

\* The loop of Marshal over vc.Comments.
RECURSIVE MarshalComments(_)
MarshalComments(cs) ==
    IF cs = <<>> THEN <<>>
    ELSE LE32(Len(Head(cs))) \o Head(cs) \o MarshalComments(Tail(cs))

\* VorbisComment.Marshal
Marshal(vc) ==
    LE32(Len(vc.Vendor)) \o vc.Vendor
        \o LE32(Len(vc.Comments)) \o MarshalComments(vc.Comments)

\* A length field read at offset pos: ok is FALSE when fewer than four bytes
\* are left (binary.Read fails).
ReadLen(data, pos) ==
    IF pos + 4 > Len(data) THEN [ok |-> FALSE, n |-> 0]
    ELSE [ok |-> TRUE, n |-> FromLE32(SubSeq(data, pos + 1, pos + 4))]

\* A string of n bytes read at offset pos: ok is FALSE when fewer than n bytes
\* are left (io.ReadFull fails).
ReadStr(data, pos, n) ==
    IF n > Len(data) - pos THEN [ok |-> FALSE, str |-> <<>>]
    ELSE [ok |-> TRUE, str |-> SubSeq(data, pos + 1, pos + n)]

ParseError(alloc) == [kind |-> "error", alloc |-> alloc]

\* Memory asked of the runtime, in KiB: make([]byte, n) takes n bytes,
\* make([]string, n) takes n string headers of 16 bytes on the 64-bit targets
\* the program is built for.
BytesKiB(n) == n \div 1024
StringsKiB(n) == n \div 64

\* The loop of ParseVorbisComment: n entries still to read at offset pos; alloc
\* is the largest amount of memory asked with make() so far.
RECURSIVE ParseComments(_, _, _, _, _, _)
ParseComments(data, pos, n, vendor, acc, alloc) ==
    IF n = 0
    THEN [kind |-> "ok", alloc |-> alloc,
          vc |-> [Vendor |-> vendor, Comments |-> acc]]
    ELSE LET l == ReadLen(data, pos)
         IN IF ~l.ok THEN ParseError(alloc)
            ELSE LET a == IF BytesKiB(l.n) > alloc THEN BytesKiB(l.n) ELSE alloc
                     c == ReadStr(data, pos + 4, l.n)
                 IN IF ~c.ok THEN ParseError(a)
                    ELSE ParseComments(data, pos + 4 + l.n, n - 1, vendor,
                                       Append(acc, c.str), a)

\* ParseVorbisComment, given that every make() got its memory.
ParseVorbisComment(data) ==
    LET vl == ReadLen(data, 0)
    IN IF ~vl.ok THEN ParseError(0)
       ELSE LET v == ReadStr(data, 4, vl.n)
            IN IF ~v.ok THEN ParseError(BytesKiB(vl.n))
               ELSE LET cl == ReadLen(data, 4 + vl.n)
                    IN IF ~cl.ok THEN ParseError(BytesKiB(vl.n))
                       ELSE ParseComments(data, 8 + vl.n, cl.n, v.str, <<>>,
                                          IF StringsKiB(cl.n) > BytesKiB(vl.n)
                                          THEN StringsKiB(cl.n)
                                          ELSE BytesKiB(vl.n))

\* make([]byte, n) and make([]string, n) are called with the declared length
\* before anything is read.  A request of more than 4 GiB, which only the entry
\* list can reach with a 32-bit count, may be more than the process can get: the
\* runtime then ends the process ("fatal error: runtime: out of memory") and
\* the function returns nothing.
AllocAtRisk(kib) == kib > 4 * 1024 * 1024

\* What a call of ParseVorbisComment can do.
ParseOutcomes(data) ==
    LET r == ParseVorbisComment(data)
    IN {r} \cup (IF AllocAtRisk(r.alloc) THEN {[kind |-> "fatal"]} ELSE {})

\* Variant: Add keeps empty values.
AddAlways(vc, key, value) ==
    [vc EXCEPT !.Comments = Append(@, key \o <<61>> \o value)]

\* VorbisComment.Add: fmt.Sprintf("%s=%s", key, value) appended unless value is
\* empty (61 is '=').
Add(vc, key, value) ==
    IF value = <<>> THEN vc
    ELSE [vc EXCEPT !.Comments = Append(@, key \o <<61>> \o value)]

\* ------------------------------------------------------------ FLAC tagging
\* tagger.go.  A FLAC file is a chain of metadata blocks followed by the audio
\* frames; a block is [Type, Data] with Data a sequence of bytes.

\* flac.VorbisComment and flac.Picture, the block types of the text tags and
\* of a picture; PictureTypeCoverFront.
VorbisCommentType == 4
PictureBlockType == 6
PictureTypeCoverFront == 3

\* Variant: the integer written low byte first.
PutLE32(n) ==
    << n % 256, (n \div 256) % 256, (n \div 65536) % 256, (n \div 16777216) % 256 >>

\* binary.Write(buf, binary.BigEndian, uint32(n))
PutBE32(n) ==
    << (n \div 16777216) % 256, (n \div 65536) % 256, (n \div 256) % 256, n % 256 >>

\* "image/jpeg" and "Cover"
MimeJpeg == <<105, 109, 97, 103, 101, 47, 106, 112, 101, 103>>
DescriptionCover == <<67, 111, 118, 101, 114>>

\* Picture.Marshal: the fields of p in the order the code writes them.
Picture_Marshal(p) ==
    PutBE32(p.PictureType)
        \o PutBE32(Len(p.MIME)) \o p.MIME
        \o PutBE32(Len(p.Description)) \o p.Description
        \o PutBE32(p.Width) \o PutBE32(p.Height)
        \o PutBE32(p.Depth) \o PutBE32(p.ColorCount)
        \o PutBE32(Len(p.ImageData)) \o p.ImageData

\* NewPicture(): a front cover of type image/jpeg, every other field zero.
NewPicture ==
    [PictureType |-> PictureTypeCoverFront, MIME |-> MimeJpeg,
     Description |-> <<>>, Width |-> 0, Height |-> 0, Depth |-> 0,
     ColorCount |-> 0, ImageData |-> <<>>]

\* The picture WriteFlacTags builds from coverData, marshalled.
PictureMarshal(imageData) ==
    Picture_Marshal([NewPicture EXCEPT !.MIME = MimeJpeg,
                                       !.Description = DescriptionCover,
                                       !.PictureType = PictureTypeCoverFront,
                                       !.ImageData = imageData])

\* NewVorbisComment: vendor "reference libFLAC 1.3.4 20220220", no entries.
NewVorbisComment ==
    [Vendor |-> <<114, 101, 102, 101, 114, 101, 110, 99, 101, 32, 108, 105, 98,
                70, 76, 65, 67, 32, 49, 46, 51, 46, 52, 32,
                50, 48, 50, 50, 48, 50, 50, 48>>,
     Comments |-> <<>>]

\* strings.ToUpper on ASCII text.
ToUpper(str) ==
    [i \in 1..Len(str) |-> IF str[i] \in 97..122 THEN str[i] - 32 ELSE str[i]]

\* fmt.Sprintf("%d", n)
RECURSIVE SprintD(_)
SprintD(n) ==
    IF n < 0 THEN <<45>> \o SprintD(-n)
    ELSE IF n < 10 THEN <<48 + n>>
    ELSE SprintD(n \div 10) \o <<48 + (n % 10)>>

\* The keys WriteFlacTags writes.
KeyTitle == <<84, 73, 84, 76, 69>>
KeyVersion == <<86, 69, 82, 83, 73, 79, 78>>
KeyArtist == <<65, 82, 84, 73, 83, 84>>
KeyAlbum == <<65, 76, 66, 85, 77>>
KeyAlbumArtist == <<65, 76, 66, 85, 77, 65, 82, 84, 73, 83, 84>>
KeyTrackNumber == <<84, 82, 65, 67, 75, 78, 85, 77, 66, 69, 82>>
KeyDiscNumber == <<68, 73, 83, 67, 78, 85, 77, 66, 69, 82>>
KeyGenre == <<71, 69, 78, 82, 69>>
KeyDate == <<68, 65, 84, 69>>

\* Variant: addTag writes the entry whatever the value.
addTagAlways(cmts, key, value) ==
    AddAlways(cmts, ToUpper(key), value)

\* addTag
addTag(cmts, key, value) ==
    IF value = <<>> THEN cmts ELSE Add(cmts, ToUpper(key), value)

\* Variant: the entries the block had are dropped before the new ones are
\* added.
AddTagsOverwrite(cmts, track, album) ==
    LET c0 == [cmts EXCEPT !.Comments = <<>>]
        c1 == addTag(c0, KeyTitle, track.Title)
        c2 == addTag(c1, KeyVersion, track.Version)
        c3 == addTag(c2, KeyArtist, track.Performer)
        c4 == addTag(c3, KeyAlbum, album.Title)
        c5 == addTag(c4, KeyAlbumArtist, album.Artist)
        c6 == addTag(c5, KeyTrackNumber, SprintD(track.TrackNumber))
        c7 == addTag(c6, KeyDiscNumber, SprintD(track.MediaNumber))
        c8 == IF album.Genre.isNil THEN c7
              ELSE addTag(c7, KeyGenre, album.Genre.Name)
    IN IF album.ReleaseDateOrg # <<>>
       THEN addTag(c8, KeyDate, album.ReleaseDateOrg)
       ELSE addTag(c8, KeyDate, album.ReleaseDateStream)

\* "Add Tags" of WriteFlacTags: the nine fields in the order of the code.
AddTags(cmts, track, album) ==
    LET c1 == addTag(cmts, KeyTitle, track.Title)
        c2 == addTag(c1, KeyVersion, track.Version)
        c3 == addTag(c2, KeyArtist, track.Performer)
        c4 == addTag(c3, KeyAlbum, album.Title)
        c5 == addTag(c4, KeyAlbumArtist, album.Artist)
        c6 == addTag(c5, KeyTrackNumber, SprintD(track.TrackNumber))
        c7 == addTag(c6, KeyDiscNumber, SprintD(track.MediaNumber))
        c8 == IF album.Genre.isNil THEN c7
              ELSE addTag(c7, KeyGenre, album.Genre.Name)
    IN IF album.ReleaseDateOrg # <<>>
       THEN addTag(c8, KeyDate, album.ReleaseDateOrg)
       ELSE IF album.ReleaseDateStream # <<>>
            THEN addTag(c8, KeyDate, album.ReleaseDateStream)
            ELSE c8

\* The loop over f.Meta: the index of the first text-tag block, 0 if none.
FirstComment(meta) ==
    IF \E i \in 1..Len(meta) : meta[i].Type = VorbisCommentType
    THEN CHOOSE i \in 1..Len(meta) :
            /\ meta[i].Type = VorbisCommentType
            /\ \A j \in 1..(i - 1) : meta[j].Type # VorbisCommentType
    ELSE 0

\* Variant: the text-tag block is always appended.
PutCommentsAppend(meta, i, data) ==
    Append(meta, [Type |-> VorbisCommentType, Data |-> data])

\* "Update or Append block": the payload of block i is replaced, or, with no
\* text-tag block (i = 0), one is appended.
PutComments(meta, i, data) ==
    IF i > 0 THEN [meta EXCEPT ![i].Data = data]
    ELSE Append(meta, [Type |-> VorbisCommentType, Data |-> data])

\* Variant: the picture takes the place of the first picture block, if any.
PutPictureReplace(meta, coverData) ==
    IF Len(coverData) = 0 THEN meta
    ELSE IF \E i \in 1..Len(meta) : meta[i].Type = PictureBlockType
    THEN LET i == CHOOSE k \in 1..Len(meta) : meta[k].Type = PictureBlockType
         IN [meta EXCEPT ![i].Data = PictureMarshal(coverData)]
    ELSE Append(meta, [Type |-> PictureBlockType,
                       Data |-> PictureMarshal(coverData)])

\* "Cover Art": with len(coverData) > 0 a picture block is appended.
PutPicture(meta, coverData) ==
    IF Len(coverData) > 0
    THEN Append(meta, [Type |-> PictureBlockType,
                       Data |-> PictureMarshal(coverData)])
    ELSE meta

\* The chain WriteFlacTags saves, given the chain it parsed and the decoded
\* text-tag block (NewVorbisComment if there was none).
TaggedMeta(meta, cmts, track, album, coverData) ==
    PutPicture(PutComments(meta, FirstComment(meta),
                           Marshal(AddTags(cmts, track, album))),
               coverData)

\* ------------------------------------------------------------ state

VARIABLES
    mpc,            \* orchestrator (DownloadAlbum's own goroutine) position
    retErr,         \* what DownloadAlbum returned: "none" (running), "nil", "error"
    concurrency,    \* Engine.Concurrency
    existing,       \* tracks whose destination file exists on disk
    tasks,          \* planned task list (track numbers)
    skipped,        \* skipped counter
    trackStates,    \* per task: [Status, Progress]
    threadTasks,    \* per slot: task index or 0 (idle)
    threadProgress, \* per slot: last reported percent
    numWorkers,     \* started workers
    stateMu,        \* holder of the state mutex
    taskChan,       \* buffered channel content
    chanClosed,     \* close(taskChan) done
    sendIdx,        \* orchestrator's send loop index
    wg,             \* sync.WaitGroup counter
    wpc,            \* per worker position
    wtask,          \* per worker: taskIdx of the current iteration (0: none)
    wgot,           \* per worker: bytes reported by the transport so far
    wclen,          \* per worker: Content-Length of the current response
    dpc,            \* display goroutine position
    stopDisplay,    \* close(stopDisplay) done
    cancelled,      \* ctx is cancelled
    outcome,        \* history: per task, how its iteration went
    termCount,      \* history: per task, number of terminal statuses assigned
    tagCount,       \* history: per task, number of WriteTags calls made for it
    finalContent,   \* what the final render shows (slots and track states)
    lastOutput,     \* history: last thing written to the terminal
    summary,        \* the summary counts printed at the end
    \* DownloadAlbum called twice on one output directory
    album,          \* album.Tracks.Items: per track [TrackNumber, Title]
    image,          \* album.Image.Large != ""
    disk,           \* names of the files in albumDir
    runNo,          \* which call on this directory is running: 1 or 2
    rpc,            \* position of the call
    rret,           \* what the call returned: "none" (running), "nil", "error"
    planIdx,        \* planning loop: tracks visited so far
    rtasks,         \* the call's task list: per task [Index, TrackPath]
    rskipped,       \* the call's skipped counter
    rworkers,       \* workers the call started
    served,         \* tasks whose worker iteration has run
    rcount,         \* the call's [success, failed] counts
    fetched,        \* history: response bodies transferred during the call
    written,        \* history: names of the files written during the call
    diskAtStart,    \* history: disk when the call started
    \* Engine configuration
    flag,           \* the argument of the last SetConcurrency call (<<>>: none)
    ntasks,         \* len(tasks) of the album download in progress (0: none)
    \* DownloadTrack
    tpc,            \* position of the call
    tret,           \* what it returned: "none" (running), "nil", "error"
    tsteps,         \* history: the steps the call has started, in order
    talbum,         \* track.Album: "nil", "no_image" or "image"
    tcover,         \* coverData: "none", "fetched" or "failed"
    tfile,          \* the output file: "absent", "partial", "audio", "tagged"
    tgot,           \* bytes last reported to onProgress
    warnings,       \* "Warning: Failed to tag file" lines printed
    \* Vorbis comment codec
    cpc,            \* what the codec run holds: "value", "buffer", "parsed"
    cvc,            \* the VorbisComment value: [Vendor, Comments]
    cbuf,           \* the block payload (bytes)
    cintact,        \* cbuf is what Marshal returned, byte for byte
    cres,           \* what ParseVorbisComment did with cbuf
    cold,           \* history: cvc before the last Add call
    clast,          \* history: the last Add call, <<key, value>>
    storage,        \* the audio files on disk: path -> [ok, meta]
    tagIn,          \* the track and album metadata the files are tagged with
    stored0,        \* history: the files before any WriteFlacTags call
    tagBefore,      \* history: the files before the last WriteFlacTags call
    tagArgs,        \* history: the arguments of the last WriteFlacTags call
    tagRes,         \* what the last WriteFlacTags call returned
    coverUrl,       \* album.Image.Large, as its segments
    coverReqs,      \* history: the requests of downloadCover in this call
    rcover,         \* coverData of this call
    rpictures,      \* history: picture blocks the WriteTags calls of this
                    \* call append (when they succeed)
    sname,          \* a name given to sanitizeFilename
    sout,           \* what sanitizeFilename returned for it
    spc,            \* "off", "name" (not yet sanitized) or "done"
    tagCalls,       \* number of WriteFlacTags calls made
    coverCalls,     \* history: path -> calls that returned nil and had a cover
    fpc,            \* "off", "args" (a helper is about to be called) or "done"
    farg,           \* the arguments of the helper call
    fres,           \* what the helper returned
    config,         \* displayState.config
    lastLines,      \* displayState.lastLines
    renders         \* history: what each render wrote to the terminal

vars == << mpc, retErr, concurrency, existing, tasks, skipped, trackStates,
           threadTasks, threadProgress, numWorkers, stateMu, taskChan,
           chanClosed, sendIdx, wg, wpc, wtask, wgot, wclen, dpc, stopDisplay,
           cancelled, outcome, termCount, tagCount, finalContent, lastOutput,
           summary,
           album, image, disk, runNo, rpc, rret, planIdx, rtasks, rskipped,
           rworkers, served, rcount, fetched, written, diskAtStart,
           flag, ntasks, tpc, tret, tsteps, talbum, tcover, tfile, tgot,
           warnings, cpc, cvc, cbuf, cintact, cres, cold, clast,
           storage, tagIn, stored0, tagBefore, tagArgs, tagRes, tagCalls,
           coverCalls, coverUrl, coverReqs, rcover, rpictures,
           sname, sout, spc, fpc, farg, fres, config, lastLines, renders >>

mainVars == << mpc, retErr, tasks, skipped, numWorkers, sendIdx, summary >>
chanVars == << taskChan, chanClosed >>
sharedVars == << trackStates, threadTasks, threadProgress >>
workerVars == << wpc, wtask, wgot, wclen >>
runVars == << album, image, disk, runNo, rpc, rret, planIdx, rtasks, rskipped,
              rworkers, served, rcount, fetched, written, diskAtStart,
              coverUrl, coverReqs, rcover, rpictures >>
\* What no step of the concurrent model of DownloadAlbum changes.
concVars == << flag, ntasks >>
trackVars == << tpc, tret, tsteps, talbum, tcover, tfile, tgot, warnings >>
codecVars == << cpc, cvc, cbuf, cintact, cres, cold, clast >>
\* The state of the tagging code (flac_metadata.go, tagger.go).
flacVars == << storage, tagIn, stored0, tagBefore, tagArgs, tagRes, tagCalls,
              coverCalls >>
nameVars == << sname, sout, spc >>
\* One call of a helper that has no state of its own.
\* The displayState of one call.
dispVars == << config, lastLines, renders >>
funVars == << fpc, farg, fres, dispVars >>
libVars == << codecVars, flacVars, nameVars, funVars >>
elseVars == << runVars, concVars, trackVars, libVars >>
envVars == << concurrency, existing, cancelled, elseVars >>
histVars == << outcome, termCount, tagCount >>
displayVars == << dpc, stopDisplay, lastOutput, finalContent >>

Slots == 1..concurrency
\* The started workers (workerID 0..numWorkers-1 in the code).
Workers == DOMAIN wpc
TaskIdx == 1..Len(tasks)

AllWorkersDone == \A w \in Workers : wpc[w] = "done"
NoSummary == [success |-> 0, failed |-> 0, skipped |-> 0, printed |-> FALSE]

\* ------------------------------------------------------------ initial state

\* No call of the two-call model is running.
RunsIdle ==
    /\ album = <<>>
    /\ image = FALSE
    /\ disk = {}
    /\ runNo = 0
    /\ rpc = "off"
    /\ rret = "none"
    /\ planIdx = 0
    /\ rtasks = <<>>
    /\ rskipped = 0
    /\ rworkers = 0
    /\ served = {}
    /\ rcount = [success |-> 0, failed |-> 0]
    /\ fetched = 0
    /\ written = {}
    /\ diskAtStart = {}
    /\ coverUrl = <<>>
    /\ coverReqs = <<>>
    /\ rcover = <<>>
    /\ rpictures = 0

\* No value of the codec is being followed.
NoComment == [Vendor |-> <<>>, Comments |-> <<>>]
NoResult == [kind |-> "none"]
CodecIdle ==
    /\ cpc = "off"
    /\ cvc = NoComment
    /\ cbuf = <<>>
    /\ cintact = TRUE
    /\ cres = NoResult
    /\ cold = NoComment
    /\ clast = <<>>

\* The tagging code is not running.
\* No audio file is being tagged.
NoFiles == << >>
NoCall == [path |-> "none"]
NoMetadata == [track |-> "none"]
FlacIdle ==
    /\ storage = NoFiles
    /\ tagIn = NoMetadata
    /\ stored0 = NoFiles
    /\ tagBefore = NoFiles
    /\ tagArgs = NoCall
    /\ tagRes = "none"
    /\ tagCalls = 0
    /\ coverCalls = NoFiles
\* sanitizeFilename is not being followed.
NamesIdle ==
    /\ sname = <<>>
    /\ sout = <<>>
    /\ spc = "off"
\* No helper call is being followed.
NoArgs == [fn |-> "none"]
NoConfig == [Width |-> 0, UseANSI |-> FALSE, MaxSongLines |-> 0]
DispIdle ==
    /\ config = NoConfig
    /\ lastLines = 0
    /\ renders = <<>>
FunIdle ==
    /\ fpc = "off"
    /\ farg = NoArgs
    /\ fres = <<>>
    /\ DispIdle
LibIdle == CodecIdle /\ FlacIdle /\ NamesIdle /\ FunIdle

\* The Engine's configuration is not being followed.
ConcIdle ==
    /\ flag = <<>>
    /\ ntasks = 0

\* No call of DownloadTrack is running.
TrackIdle ==
    /\ tpc = "off"
    /\ tret = "none"
    /\ tsteps = <<>>
    /\ talbum = "nil"
    /\ tcover = "none"
    /\ tfile = "absent"
    /\ tgot = 0
    /\ warnings = 0

\* An Engine configured by SetConcurrency(n) (cmd/qobuz-dl/main.go), an album of
\* MaxTracks tracks, any subset of whose files already exists, and a live ctx.
Init ==
    /\ RunsIdle
    /\ ConcIdle
    /\ TrackIdle
    /\ LibIdle
    /\ mpc = "get_album"
    /\ retErr = "none"
    /\ concurrency \in {SetConcurrency(n) : n \in ThreadFlags}
    /\ existing \in SUBSET (1..MaxTracks)
    /\ tasks = <<>>
    /\ skipped = 0
    /\ trackStates = <<>>
    /\ threadTasks = <<>>
    /\ threadProgress = <<>>
    /\ numWorkers = 0
    /\ stateMu = NoThread
    /\ taskChan = <<>>
    /\ chanClosed = FALSE
    /\ sendIdx = 0
    /\ wg = 0
    /\ wpc = <<>>
    /\ wtask = <<>>
    /\ wgot = <<>>
    /\ wclen = <<>>
    /\ dpc = "off"
    /\ stopDisplay = FALSE
    /\ cancelled = FALSE
    /\ outcome = <<>>
    /\ termCount = <<>>
    /\ tagCount = <<>>
    /\ finalContent = <<>>
    /\ lastOutput = "none"
    /\ summary = NoSummary

\* ------------------------------------------------------------ orchestrator

\* album, err := e.Client.GetAlbum(albumID); on error DownloadAlbum returns it.
GetAlbumOk ==
    /\ mpc = "get_album"
    /\ mpc' = "mkdir"
    /\ UNCHANGED << retErr, tasks, skipped, numWorkers, sendIdx, summary,
                    chanVars, sharedVars, workerVars, envVars, histVars,
                    displayVars, stateMu, wg >>

GetAlbumFail ==
    /\ mpc = "get_album"
    /\ mpc' = "returned"
    /\ retErr' = "error"
    /\ UNCHANGED << tasks, skipped, numWorkers, sendIdx, summary,
                    chanVars, sharedVars, workerVars, envVars, histVars,
                    displayVars, stateMu, wg >>

\* os.MkdirAll(albumDir, 0755); on error DownloadAlbum returns it.
MkdirOk ==
    /\ mpc = "mkdir"
    /\ mpc' = "plan"
    /\ UNCHANGED << retErr, tasks, skipped, numWorkers, sendIdx, summary,
                    chanVars, sharedVars, workerVars, envVars, histVars,
                    displayVars, stateMu, wg >>

MkdirFail ==
    /\ mpc = "mkdir"
    /\ mpc' = "returned"
    /\ retErr' = "error"
    /\ UNCHANGED << tasks, skipped, numWorkers, sendIdx, summary,
                    chanVars, sharedVars, workerVars, envVars, histVars,
                    displayVars, stateMu, wg >>

\* Steps 4 and 5: build the task list, count the skipped tracks, return nil when
\* nothing is left, otherwise initialise trackStates, threadTasks,
\* threadProgress and numWorkers.
Plan ==
    /\ mpc = "plan"
    /\ LET ts == PlanTasks(1, existing)
       IN /\ tasks' = ts
          /\ skipped' = Cardinality(existing)
          /\ IF Len(ts) = 0
             THEN /\ mpc' = "returned"
                  /\ retErr' = "nil"
                  /\ UNCHANGED << sharedVars, numWorkers, histVars >>
             ELSE /\ mpc' = "start_display"
                  /\ retErr' = retErr
                  /\ trackStates' = [i \in 1..Len(ts) |->
                                      [Status |-> StatusQueued, Progress |-> 0]]
                  /\ threadTasks' = [i \in Slots |-> 0]
                  /\ threadProgress' = [i \in Slots |-> 0]
                  /\ numWorkers' = NumWorkers(concurrency, Len(ts))
                  /\ outcome' = [i \in 1..Len(ts) |-> "none"]
                  /\ termCount' = [i \in 1..Len(ts) |-> 0]
                  /\ tagCount' = [i \in 1..Len(ts) |-> 0]
    /\ UNCHANGED << sendIdx, summary, chanVars, workerVars, envVars,
                    displayVars, stateMu, wg >>

\* go func() { ... }() of step 6.
StartDisplay ==
    /\ mpc = "start_display"
    /\ mpc' = "start_workers"
    /\ dpc' = "select"
    /\ UNCHANGED << retErr, tasks, skipped, numWorkers, sendIdx, summary,
                    chanVars, sharedVars, workerVars, envVars, histVars,
                    stopDisplay, lastOutput, finalContent, stateMu, wg >>

\* for w := range numWorkers { wg.Add(1); go func(workerID int) {...}(w) }.
\* The workers can do nothing before the first send, so they start together.
StartWorkers ==
    /\ mpc = "start_workers"
    /\ mpc' = "send"
    /\ wg' = numWorkers
    /\ wpc' = [w \in 1..numWorkers |-> "recv"]
    /\ wtask' = [w \in 1..numWorkers |-> 0]
    /\ wgot' = [w \in 1..numWorkers |-> 0]
    /\ wclen' = [w \in 1..numWorkers |-> 0]
    /\ UNCHANGED << retErr, tasks, skipped, numWorkers, sendIdx, summary,
                    chanVars, sharedVars, envVars, histVars, displayVars,
                    stateMu >>

\* for i := range tasks { taskChan <- i }: the channel's capacity is len(tasks).
SendTask ==
    /\ mpc = "send"
    /\ sendIdx < Len(tasks)
    /\ Len(taskChan) < Len(tasks)
    /\ taskChan' = Append(taskChan, sendIdx + 1)
    /\ sendIdx' = sendIdx + 1
    /\ UNCHANGED << mpc, retErr, tasks, skipped, numWorkers, summary,
                    chanClosed, sharedVars, workerVars, envVars, histVars,
                    displayVars, stateMu, wg >>

\* Variant: the orchestrator waits without closing the channel.
CloseChanSkipped ==
    /\ mpc = "send"
    /\ sendIdx = Len(tasks)
    /\ mpc' = "wait"
    /\ UNCHANGED << retErr, tasks, skipped, numWorkers, sendIdx, summary,
                    chanVars, sharedVars, workerVars, envVars, histVars,
                    displayVars, stateMu, wg >>

\* close(taskChan)
CloseChan ==
    /\ mpc = "send"
    /\ sendIdx = Len(tasks)
    /\ chanClosed' = TRUE
    /\ mpc' = "wait"
    /\ UNCHANGED << retErr, tasks, skipped, numWorkers, sendIdx, summary,
                    taskChan, sharedVars, workerVars, envVars, histVars,
                    displayVars, stateMu, wg >>

\* Variant: the orchestrator goes on without wg.Wait().
WaitWorkersNoWait ==
    /\ mpc = "wait"
    /\ mpc' = "stop"
    /\ UNCHANGED << retErr, tasks, skipped, numWorkers, sendIdx, summary,
                    chanVars, sharedVars, workerVars, envVars, histVars,
                    displayVars, stateMu, wg >>

\* wg.Wait()
WaitWorkers ==
    /\ mpc = "wait"
    /\ wg = 0
    /\ mpc' = "stop"
    /\ UNCHANGED << retErr, tasks, skipped, numWorkers, sendIdx, summary,
                    chanVars, sharedVars, workerVars, envVars, histVars,
                    displayVars, stateMu, wg >>

\* close(stopDisplay)
StopDisplay ==
    /\ mpc = "stop"
    /\ stopDisplay' = TRUE
    /\ mpc' = "join"
    /\ UNCHANGED << retErr, tasks, skipped, numWorkers, sendIdx, summary,
                    chanVars, sharedVars, workerVars, envVars, histVars,
                    dpc, lastOutput, finalContent, stateMu, wg >>

\* Variant: the orchestrator goes on without receiving from displayDone.
JoinDisplayNoWait ==
    /\ mpc = "join"
    /\ mpc' = "final_lock"
    /\ UNCHANGED << retErr, tasks, skipped, numWorkers, sendIdx, summary,
                    chanVars, sharedVars, workerVars, envVars, histVars,
                    displayVars, stateMu, wg >>

\* <-displayDone
JoinDisplay ==
    /\ mpc = "join"
    /\ dpc = "done"
    /\ mpc' = "final_lock"
    /\ UNCHANGED << retErr, tasks, skipped, numWorkers, sendIdx, summary,
                    chanVars, sharedVars, workerVars, envVars, histVars,
                    displayVars, stateMu, wg >>

\* stateMu.Lock() before the final buildDisplayContent.
FinalLock ==
    /\ mpc = "final_lock"
    /\ stateMu = NoThread
    /\ stateMu' = MainThread
    /\ mpc' = "final_build"
    /\ UNCHANGED << retErr, tasks, skipped, numWorkers, sendIdx, summary,
                    chanVars, sharedVars, workerVars, envVars, histVars,
                    displayVars, wg >>

\* finalContent := buildDisplayContent(...); stateMu.Unlock()
FinalBuild ==
    /\ mpc = "final_build"
    /\ finalContent' = << [slots |-> threadTasks, states |-> trackStates] >>
    /\ stateMu' = NoThread
    /\ mpc' = "final_render"
    /\ UNCHANGED << retErr, tasks, skipped, numWorkers, sendIdx, summary,
                    chanVars, sharedVars, workerVars, envVars, histVars,
                    dpc, stopDisplay, lastOutput, wg >>

\* display.renderFinal(finalContent)
FinalRender ==
    /\ mpc = "final_render"
    /\ lastOutput' = "final"
    /\ mpc' = "summary"
    /\ UNCHANGED << retErr, tasks, skipped, numWorkers, sendIdx, summary,
                    chanVars, sharedVars, workerVars, envVars, histVars,
                    dpc, stopDisplay, finalContent, stateMu, wg >>

\* Variant: DownloadAlbum returns an error when a track has failed.
SummaryErrorOnFailed ==
    /\ mpc = "summary"
    /\ summary' = [success |-> Cardinality({i \in TaskIdx :
                                  trackStates[i].Status = StatusComplete}),
                   failed |-> Cardinality({i \in TaskIdx :
                                  trackStates[i].Status = StatusFailed}),
                   skipped |-> skipped,
                   printed |-> TRUE]
    /\ lastOutput' = "summary"
    /\ mpc' = "returned"
    /\ retErr' = IF \E i \in TaskIdx : trackStates[i].Status = StatusFailed
                 THEN "error" ELSE "nil"
    /\ UNCHANGED << tasks, skipped, numWorkers, sendIdx,
                    chanVars, sharedVars, workerVars, envVars, histVars,
                    dpc, stopDisplay, finalContent, stateMu, wg >>

\* The summary loop over trackStates (no lock taken), printBox, return nil.
Summary ==
    /\ mpc = "summary"
    /\ summary' = [success |-> Cardinality({i \in TaskIdx :
                                  trackStates[i].Status = StatusComplete}),
                   failed |-> Cardinality({i \in TaskIdx :
                                  trackStates[i].Status = StatusFailed}),
                   skipped |-> skipped,
                   printed |-> TRUE]
    /\ lastOutput' = "summary"
    /\ mpc' = "returned"
    /\ retErr' = "nil"
    /\ UNCHANGED << tasks, skipped, numWorkers, sendIdx,
                    chanVars, sharedVars, workerVars, envVars, histVars,
                    dpc, stopDisplay, finalContent, stateMu, wg >>

\* ------------------------------------------------------------ workers
\* A step that ends with stateMu.Lock() is taken only when the mutex is free:
\* the call that precedes the Lock has returned and the Lock succeeds.

\* What a worker step leaves alone besides the worker's own variables.
WorkerFrame ==
    UNCHANGED << mainVars, envVars, displayVars >>

\* Variant: a receive takes the newest element of the channel.
DequeueLast(w) ==
    /\ wpc[w] = "recv"
    /\ Len(taskChan) > 0
    /\ wtask' = [wtask EXCEPT ![w] = taskChan[Len(taskChan)]]
    /\ taskChan' = SubSeq(taskChan, 1, Len(taskChan) - 1)
    /\ wpc' = [wpc EXCEPT ![w] = "mark_lock"]
    /\ UNCHANGED << chanClosed, sharedVars, wgot, wclen, histVars, stateMu, wg >>
    /\ WorkerFrame

\* for taskIdx := range taskChan: take the head of the channel.
Dequeue(w) ==
    /\ wpc[w] = "recv"
    /\ Len(taskChan) > 0
    /\ wtask' = [wtask EXCEPT ![w] = Head(taskChan)]
    /\ taskChan' = Tail(taskChan)
    /\ wpc' = [wpc EXCEPT ![w] = "mark_lock"]
    /\ UNCHANGED << chanClosed, sharedVars, wgot, wclen, histVars, stateMu, wg >>
    /\ WorkerFrame

\* Variant: the worker also leaves its loop when ctx is cancelled.
WorkerExitOnCancel(w) ==
    /\ wpc[w] = "recv"
    /\ (Len(taskChan) = 0 /\ chanClosed) \/ cancelled
    /\ wpc' = [wpc EXCEPT ![w] = "done"]
    /\ wg' = wg - 1
    /\ UNCHANGED << chanVars, sharedVars, wtask, wgot, wclen, histVars, stateMu >>
    /\ UNCHANGED << mainVars, envVars, displayVars >>

\* The range loop ends when the channel is closed and drained; defer wg.Done().
WorkerExit(w) ==
    /\ wpc[w] = "recv"
    /\ Len(taskChan) = 0
    /\ chanClosed
    /\ wpc' = [wpc EXCEPT ![w] = "done"]
    /\ wg' = wg - 1
    /\ UNCHANGED << chanVars, sharedVars, wtask, wgot, wclen, histVars, stateMu >>
    /\ WorkerFrame

\* stateMu.Lock() before "Update state: downloading".
LockForMark(w) ==
    /\ wpc[w] = "mark_lock"
    /\ stateMu = NoThread
    /\ stateMu' = Worker(w)
    /\ wpc' = [wpc EXCEPT ![w] = "mark"]
    /\ UNCHANGED << chanVars, sharedVars, wtask, wgot, wclen, histVars, wg >>
    /\ WorkerFrame

\* Variant: the slot is set but the track state is left Queued.
MarkDownloadingSlotOnly(w) ==
    /\ wpc[w] = "mark"
    /\ threadTasks' = [threadTasks EXCEPT ![w] = wtask[w]]
    /\ threadProgress' = [threadProgress EXCEPT ![w] = 0]
    /\ stateMu' = NoThread
    /\ wpc' = [wpc EXCEPT ![w] = "url"]
    /\ UNCHANGED << chanVars, trackStates, wtask, wgot, wclen, histVars, wg >>
    /\ UNCHANGED << mainVars, envVars, displayVars >>

\* "Update state: downloading": slot and track state set, then Unlock.
MarkDownloading(w) ==
    /\ wpc[w] = "mark"
    /\ threadTasks' = [threadTasks EXCEPT ![w] = wtask[w]]
    /\ threadProgress' = [threadProgress EXCEPT ![w] = 0]
    /\ trackStates' = [trackStates EXCEPT
                         ![wtask[w]] = [Status |-> StatusDownloading, Progress |-> 0]]
    /\ stateMu' = NoThread
    /\ wpc' = [wpc EXCEPT ![w] = "url"]
    /\ UNCHANGED << chanVars, wtask, wgot, wclen, histVars, wg >>
    /\ WorkerFrame

\* e.Client.GetTrackURL returns a URL; downloadFileWithProgress then issues the
\* GET with ctx and the response arrives with its Content-Length.
UrlOk(w) ==
    /\ wpc[w] = "url"
    /\ ~cancelled
    /\ wpc' = [wpc EXCEPT ![w] = "xfer"]
    /\ outcome' = [outcome EXCEPT ![wtask[w]] = "transferring"]
    /\ \E cl \in ContentLengths : wclen' = [wclen EXCEPT ![w] = cl]
    /\ UNCHANGED << chanVars, sharedVars, wtask, wgot, termCount, tagCount, stateMu, wg >>
    /\ WorkerFrame

\* e.Client.GetTrackURL returns a URL, but ctx is already cancelled: the GET
\* fails at once; the error branch then takes the lock.
UrlOkCancelled(w) ==
    /\ wpc[w] = "url"
    /\ cancelled
    /\ stateMu = NoThread
    /\ stateMu' = Worker(w)
    /\ wpc' = [wpc EXCEPT ![w] = "xferfail"]
    /\ outcome' = [outcome EXCEPT ![wtask[w]] = "refused"]
    /\ UNCHANGED << chanVars, sharedVars, wtask, wgot, wclen, termCount, tagCount, wg >>
    /\ WorkerFrame

\* e.Client.GetTrackURL returns an error (it takes no ctx); the error branch
\* takes the lock.
UrlFail(w) ==
    /\ wpc[w] = "url"
    /\ stateMu = NoThread
    /\ stateMu' = Worker(w)
    /\ wpc' = [wpc EXCEPT ![w] = "urlfail"]
    /\ outcome' = [outcome EXCEPT ![wtask[w]] = "url_failed"]
    /\ UNCHANGED << chanVars, sharedVars, wtask, wgot, wclen, termCount, tagCount, wg >>
    /\ WorkerFrame

\* Variant: the error branch frees the slot and continues without setting Failed.
MarkUrlFailedNoStatus(w) ==
    /\ wpc[w] = "urlfail"
    /\ threadTasks' = [threadTasks EXCEPT ![w] = 0]
    /\ stateMu' = NoThread
    /\ wpc' = [wpc EXCEPT ![w] = "recv"]
    /\ wtask' = [wtask EXCEPT ![w] = 0]
    /\ UNCHANGED << chanVars, trackStates, threadProgress, wgot, wclen,
                    histVars, wg >>
    /\ UNCHANGED << mainVars, envVars, displayVars >>

\* if err != nil after GetTrackURL: Status = Failed, slot freed, Unlock, continue.
MarkUrlFailed(w) ==
    /\ wpc[w] = "urlfail"
    /\ trackStates' = [trackStates EXCEPT ![wtask[w]].Status = StatusFailed]
    /\ threadTasks' = [threadTasks EXCEPT ![w] = 0]
    /\ termCount' = [termCount EXCEPT ![wtask[w]] = @ + 1]
    /\ UNCHANGED tagCount
    /\ stateMu' = NoThread
    /\ wpc' = [wpc EXCEPT ![w] = "recv"]
    /\ wtask' = [wtask EXCEPT ![w] = 0]
    /\ UNCHANGED << chanVars, threadProgress, wgot, wclen, outcome, wg >>
    /\ WorkerFrame

\* The transport reads more of the body and calls the download callback with
\* the new DownloadedSize, which is never less than the last one.  The callback does something only when the
\* Content-Length is known (if info.Response.ContentLength > 0); it then
\* calls onProgress, which takes the lock.
XferProgress(w) ==
    /\ wpc[w] = "xfer"
    /\ wclen[w] > 0
    /\ \E d \in wgot[w]..MaxBytes :
          wgot' = [wgot EXCEPT ![w] = d]
    /\ stateMu = NoThread
    /\ stateMu' = Worker(w)
    /\ wpc' = [wpc EXCEPT ![w] = "cb"]
    /\ UNCHANGED << chanVars, sharedVars, wtask, wclen, histVars, wg >>
    /\ WorkerFrame

\* Variant: the callback sets the slot's progress only.
ProgressCallbackSlotOnly(w) ==
    /\ wpc[w] = "cb"
    /\ threadProgress' = [threadProgress EXCEPT
                            ![w] = Percent(wgot[w], wclen[w])]
    /\ stateMu' = NoThread
    /\ wpc' = [wpc EXCEPT ![w] = "xfer"]
    /\ UNCHANGED << chanVars, threadTasks, trackStates, wtask, wgot, wclen,
                    histVars, wg >>
    /\ WorkerFrame

\* onProgress(percent): both progress fields set under the lock, then Unlock.
ProgressCallback(w) ==
    /\ wpc[w] = "cb"
    /\ LET percent == Percent(wgot[w], wclen[w])
       IN /\ threadProgress' = [threadProgress EXCEPT ![w] = percent]
          /\ trackStates' = [trackStates EXCEPT ![wtask[w]].Progress = percent]
    /\ stateMu' = NoThread
    /\ wpc' = [wpc EXCEPT ![w] = "xfer"]
    /\ UNCHANGED << chanVars, threadTasks, wtask, wgot, wclen, histVars, wg >>
    /\ WorkerFrame

\* Variant: after a successful transfer the worker goes straight to "Update
\* state: complete", without tagging.
XferDoneSkipTag(w) ==
    /\ wpc[w] = "xfer"
    /\ stateMu = NoThread
    /\ stateMu' = Worker(w)
    /\ wpc' = [wpc EXCEPT ![w] = "complete"]
    /\ outcome' = [outcome EXCEPT ![wtask[w]] = "tag_ok"]
    /\ wgot' = [wgot EXCEPT ![w] = 0]
    /\ wclen' = [wclen EXCEPT ![w] = 0]
    /\ UNCHANGED << chanVars, sharedVars, wtask, termCount, tagCount, wg >>
    /\ WorkerFrame

\* Get returns without error and with a success status.
XferDone(w) ==
    /\ wpc[w] = "xfer"
    /\ wpc' = [wpc EXCEPT ![w] = "tag"]
    /\ outcome' = [outcome EXCEPT ![wtask[w]] = "transferred"]
    /\ wgot' = [wgot EXCEPT ![w] = 0]
    /\ wclen' = [wclen EXCEPT ![w] = 0]
    /\ UNCHANGED << chanVars, sharedVars, wtask, termCount, tagCount, stateMu, wg >>
    /\ WorkerFrame

\* Get returns an error, or the response is in error state; the error branch
\* takes the lock.
XferFail(w) ==
    /\ wpc[w] = "xfer"
    /\ stateMu = NoThread
    /\ stateMu' = Worker(w)
    /\ wpc' = [wpc EXCEPT ![w] = "xferfail"]
    /\ outcome' = [outcome EXCEPT ![wtask[w]] = "xfer_failed"]
    /\ wgot' = [wgot EXCEPT ![w] = 0]
    /\ wclen' = [wclen EXCEPT ![w] = 0]
    /\ UNCHANGED << chanVars, sharedVars, wtask, termCount, tagCount, wg >>
    /\ WorkerFrame

\* Variant: the cancellation error of the transfer is not treated as a failure:
\* the worker goes on to the "complete" update.
XferAbortedIgnored(w) ==
    /\ wpc[w] = "xfer"
    /\ cancelled
    /\ stateMu = NoThread
    /\ stateMu' = Worker(w)
    /\ wpc' = [wpc EXCEPT ![w] = "complete"]
    /\ outcome' = [outcome EXCEPT ![wtask[w]] = "aborted"]
    /\ wgot' = [wgot EXCEPT ![w] = 0]
    /\ wclen' = [wclen EXCEPT ![w] = 0]
    /\ UNCHANGED << chanVars, sharedVars, wtask, termCount, tagCount, wg >>
    /\ UNCHANGED << mainVars, envVars, displayVars >>

\* The transfer in flight is aborted because ctx is cancelled; the error
\* branch takes the lock.
XferAborted(w) ==
    /\ wpc[w] = "xfer"
    /\ cancelled
    /\ stateMu = NoThread
    /\ stateMu' = Worker(w)
    /\ wpc' = [wpc EXCEPT ![w] = "xferfail"]
    /\ outcome' = [outcome EXCEPT ![wtask[w]] = "aborted"]
    /\ wgot' = [wgot EXCEPT ![w] = 0]
    /\ wclen' = [wclen EXCEPT ![w] = 0]
    /\ UNCHANGED << chanVars, sharedVars, wtask, termCount, tagCount, wg >>
    /\ WorkerFrame

\* Variant: the error branch of the transfer writes StatusComplete.
MarkXferFailedAsComplete(w) ==
    /\ wpc[w] = "xferfail"
    /\ trackStates' = [trackStates EXCEPT ![wtask[w]].Status = StatusComplete]
    /\ threadTasks' = [threadTasks EXCEPT ![w] = 0]
    /\ termCount' = [termCount EXCEPT ![wtask[w]] = @ + 1]
    /\ UNCHANGED tagCount
    /\ stateMu' = NoThread
    /\ wpc' = [wpc EXCEPT ![w] = "recv"]
    /\ wtask' = [wtask EXCEPT ![w] = 0]
    /\ UNCHANGED << chanVars, threadProgress, wgot, wclen, outcome, wg >>
    /\ UNCHANGED << mainVars, envVars, displayVars >>

\* if err != nil after the transfer: Status = Failed, slot freed, Unlock, continue.
MarkXferFailed(w) ==
    /\ wpc[w] = "xferfail"
    /\ trackStates' = [trackStates EXCEPT ![wtask[w]].Status = StatusFailed]
    /\ threadTasks' = [threadTasks EXCEPT ![w] = 0]
    /\ termCount' = [termCount EXCEPT ![wtask[w]] = @ + 1]
    /\ UNCHANGED tagCount
    /\ stateMu' = NoThread
    /\ wpc' = [wpc EXCEPT ![w] = "recv"]
    /\ wtask' = [wtask EXCEPT ![w] = 0]
    /\ UNCHANGED << chanVars, threadProgress, wgot, wclen, outcome, wg >>
    /\ WorkerFrame

\* Variant: a tagging error is treated like a transfer error.
WriteTagsChecked(w) ==
    /\ wpc[w] = "tag"
    /\ tagCount' = [tagCount EXCEPT ![wtask[w]] = @ + 1]
    /\ stateMu = NoThread
    /\ stateMu' = Worker(w)
    /\ \E result \in {"tag_ok", "tag_failed"} :
          /\ outcome' = [outcome EXCEPT ![wtask[w]] = result]
          /\ wpc' = [wpc EXCEPT ![w] =
                       IF result = "tag_ok" THEN "complete" ELSE "xferfail"]
    /\ UNCHANGED << chanVars, sharedVars, wtask, wgot, wclen, termCount, wg >>
    /\ UNCHANGED << mainVars, envVars, displayVars >>

\* _ = e.Tagger.WriteTags(...): the result is discarded; then the lock is taken.
WriteTags(w) ==
    /\ wpc[w] = "tag"
    /\ tagCount' = [tagCount EXCEPT ![wtask[w]] = @ + 1]
    /\ \E result \in {"tag_ok", "tag_failed"} :
          outcome' = [outcome EXCEPT ![wtask[w]] = result]
    /\ stateMu = NoThread
    /\ stateMu' = Worker(w)
    /\ wpc' = [wpc EXCEPT ![w] = "complete"]
    /\ UNCHANGED << chanVars, sharedVars, wtask, wgot, wclen, termCount, wg >>
    /\ WorkerFrame

\* "Update state: complete": Status = Complete, Progress = 100, slot freed, Unlock.
MarkComplete(w) ==
    /\ wpc[w] = "complete"
    /\ trackStates' = [trackStates EXCEPT
                         ![wtask[w]] = [Status |-> StatusComplete, Progress |-> 100]]
    /\ threadTasks' = [threadTasks EXCEPT ![w] = 0]
    /\ termCount' = [termCount EXCEPT ![wtask[w]] = @ + 1]
    /\ UNCHANGED tagCount
    /\ stateMu' = NoThread
    /\ wpc' = [wpc EXCEPT ![w] = "recv"]
    /\ wtask' = [wtask EXCEPT ![w] = 0]
    /\ UNCHANGED << chanVars, threadProgress, wgot, wclen, outcome, wg >>
    /\ WorkerFrame

\* ------------------------------------------------------------ display goroutine

DisplayFrame ==
    UNCHANGED << mainVars, chanVars, workerVars, envVars, histVars,
                 stopDisplay, finalContent, wg >>

\* select: case <-ticker.C, then stateMu.Lock()
DisplayTick ==
    /\ dpc = "select"
    /\ stateMu = NoThread
    /\ stateMu' = DisplayThread
    /\ dpc' = "snapshot"
    /\ UNCHANGED << sharedVars, lastOutput >>
    /\ DisplayFrame

\* select: case <-stopDisplay: return (defer close(displayDone))
DisplayStop ==
    /\ dpc = "select"
    /\ stopDisplay
    /\ dpc' = "done"
    /\ UNCHANGED << sharedVars, stateMu, lastOutput >>
    /\ DisplayFrame

\* Variant: the display goroutine renders before it unlocks.
DisplaySnapshotKeepLock ==
    /\ dpc = "snapshot"
    /\ dpc' = "render"
    /\ UNCHANGED << sharedVars, stateMu, lastOutput >>
    /\ UNCHANGED << mainVars, chanVars, workerVars, envVars, histVars,
                    stopDisplay, finalContent, wg >>

\* content := buildDisplayContent(...); stateMu.Unlock()
DisplaySnapshot ==
    /\ dpc = "snapshot"
    /\ stateMu' = NoThread
    /\ dpc' = "render"
    /\ UNCHANGED << sharedVars, lastOutput >>
    /\ DisplayFrame

\* display.clearAndRender(content)
DisplayRender ==
    /\ dpc = "render"
    /\ lastOutput' = "periodic"
    /\ dpc' = "select"
    /\ UNCHANGED << sharedVars, stateMu >>
    /\ DisplayFrame

\* ------------------------------------------------------------ environment

\* The caller cancels ctx while DownloadAlbum runs.
Cancel ==
    /\ mpc # "returned"
    /\ ~cancelled
    /\ cancelled' = TRUE
    /\ UNCHANGED << mainVars, chanVars, sharedVars, workerVars, histVars,
                    displayVars, concurrency, existing, stateMu, wg, elseVars >>

\* ------------------------------------------------------------ specification

Next ==
    \/ GetAlbumOk
    \/ GetAlbumFail
    \/ MkdirOk
    \/ MkdirFail
    \/ Plan
    \/ StartDisplay
    \/ StartWorkers
    \/ SendTask
    \/ CloseChan
    \/ WaitWorkers
    \/ StopDisplay
    \/ JoinDisplay
    \/ FinalLock
    \/ FinalBuild
    \/ FinalRender
    \/ Summary
    \/ \E w \in Workers : Dequeue(w)
    \/ \E w \in Workers : WorkerExit(w)
    \/ \E w \in Workers : LockForMark(w)
    \/ \E w \in Workers : MarkDownloading(w)
    \/ \E w \in Workers : UrlOk(w)
    \/ \E w \in Workers : UrlOkCancelled(w)
    \/ \E w \in Workers : UrlFail(w)
    \/ \E w \in Workers : MarkUrlFailed(w)
    \/ \E w \in Workers : XferProgress(w)
    \/ \E w \in Workers : ProgressCallback(w)
    \/ \E w \in Workers : XferDone(w)
    \/ \E w \in Workers : XferFail(w)
    \/ \E w \in Workers : XferAborted(w)
    \/ \E w \in Workers : MarkXferFailed(w)
    \/ \E w \in Workers : WriteTags(w)
    \/ \E w \in Workers : MarkComplete(w)
    \/ DisplayTick
    \/ DisplayStop
    \/ DisplaySnapshot
    \/ DisplayRender
    \/ Cancel

Spec == Init /\ [][Next]_vars

\* ------------------------------------------------------------ two calls

(***************************************************************************)
(* DownloadAlbum called twice on one output directory, with the file       *)
(* system: the album's track file names, the cover step and the planning   *)
(* loop are modelled in full; the worker pool is one step per task (the    *)
(* whole iteration of the worker that dequeued it), in any order.          *)
(***************************************************************************)

\* track.TrackNumber values (it restarts on every disc of the album) and
\* track.Title values.
TrackNumbers == {1, 2}
Titles == { <<"a">>, <<"a", "?">>, <<"a", "*">> }

Albums == [1..MaxTracks -> [TrackNumber : TrackNumbers, Title : Titles]]

\* album.Image.Large values, a URL being the sequence of its segments: one
\* of the 600-pixel variant, one of another size.
CoverUrls == { <<"img", "_600.", "jpg">>, <<"img", "_230.", "jpg">> }

\* What a cover request that succeeds delivers: resp.Bytes().
CoverBodies == { <<255, 216>> }

\* strings.Replace(url, old, new, 1): the first occurrence is replaced.
ReplaceFirst(url, old, new) ==
    IF \E i \in 1..Len(url) : url[i] = old
    THEN LET i == CHOOSE k \in 1..Len(url) :
                     url[k] = old /\ \A j \in 1..(k - 1) : url[j] # old
         IN [url EXCEPT ![i] = new]
    ELSE url

\* maxUrl := strings.Replace(url, "_600.", "_org.", 1)
MaxUrl(url) == ReplaceFirst(url, "_600.", "_org.")

\* The variables of the concurrent model, which the calls below leave alone.
albumVars == << mainVars, chanVars, sharedVars, workerVars, histVars,
                displayVars, stateMu, wg, existing, cancelled >>

\* The concurrent model is not running.
PoolIdle ==
    /\ mpc = "off"
    /\ retErr = "none"
    /\ existing = {}
    /\ tasks = <<>>
    /\ skipped = 0
    /\ trackStates = <<>>
    /\ threadTasks = <<>>
    /\ threadProgress = <<>>
    /\ numWorkers = 0
    /\ stateMu = NoThread
    /\ taskChan = <<>>
    /\ chanClosed = FALSE
    /\ sendIdx = 0
    /\ wg = 0
    /\ wpc = <<>>
    /\ wtask = <<>>
    /\ wgot = <<>>
    /\ wclen = <<>>
    /\ dpc = "off"
    /\ stopDisplay = FALSE
    /\ cancelled = FALSE
    /\ outcome = <<>>
    /\ termCount = <<>>
    /\ tagCount = <<>>
    /\ finalContent = <<>>
    /\ lastOutput = "none"
    /\ summary = NoSummary

\* The first call starts on an empty album directory.
InitRuns ==
    /\ PoolIdle
    /\ ConcIdle
    /\ TrackIdle
    /\ LibIdle
    /\ concurrency \in {SetConcurrency(n) : n \in ThreadFlags}
    /\ album \in Albums
    /\ image \in BOOLEAN
    /\ disk = {}
    /\ runNo = 1
    /\ rpc = "get_album"
    /\ rret = "none"
    /\ planIdx = 0
    /\ rtasks = <<>>
    /\ rskipped = 0
    /\ rworkers = 0
    /\ served = {}
    /\ rcount = [success |-> 0, failed |-> 0]
    /\ fetched = 0
    /\ written = {}
    /\ diskAtStart = {}
    /\ coverUrl \in IF image THEN CoverUrls ELSE { <<>> }
    /\ coverReqs = <<>>
    /\ rcover = <<>>
    /\ rpictures = 0

RunFrame ==
    UNCHANGED << albumVars, concVars, trackVars, libVars, concurrency, album,
                 image, coverUrl,
                 runNo, diskAtStart >>

\* The step has nothing to do with the cover.
CoverKept == UNCHANGED << coverReqs, rcover, rpictures >>

\* album, err := e.Client.GetAlbum(albumID)
RunGetAlbumOk ==
    /\ rpc = "get_album"
    /\ rpc' = "mkdir"
    /\ UNCHANGED << disk, rret, planIdx, rtasks, rskipped, rworkers, served,
                    rcount, fetched, written >>
    /\ CoverKept
    /\ RunFrame

RunGetAlbumFail ==
    /\ rpc = "get_album"
    /\ rpc' = "returned"
    /\ rret' = "error"
    /\ UNCHANGED << disk, planIdx, rtasks, rskipped, rworkers, served, rcount,
                    fetched, written >>
    /\ CoverKept
    /\ RunFrame

\* os.MkdirAll(albumDir, 0755)
RunMkdirOk ==
    /\ rpc = "mkdir"
    /\ rpc' = "cover"
    /\ UNCHANGED << disk, rret, planIdx, rtasks, rskipped, rworkers, served,
                    rcount, fetched, written >>
    /\ CoverKept
    /\ RunFrame

RunMkdirFail ==
    /\ rpc = "mkdir"
    /\ rpc' = "returned"
    /\ rret' = "error"
    /\ UNCHANGED << disk, planIdx, rtasks, rskipped, rworkers, served, rcount,
                    fetched, written >>
    /\ CoverKept
    /\ RunFrame

\* if album.Image.Large != "": the album has no cover URL.
CoverNone ==
    /\ rpc = "cover"
    /\ ~image
    /\ rpc' = "plan"
    /\ UNCHANGED << disk, rret, planIdx, rtasks, rskipped, rworkers, served,
                    rcount, fetched, written >>
    /\ CoverKept
    /\ RunFrame

\* The cover step after downloadCover returned bytes: saveCoverFile writes
\* cover.jpg, its error is dropped.
CoverDelivered(reqs) ==
    /\ rpc = "cover"
    /\ image
    /\ rpc' = "plan"
    /\ coverReqs' = reqs
    /\ \E body \in CoverBodies : rcover' = body
    /\ fetched' = fetched + 1
    /\ \E saved \in BOOLEAN :
          /\ disk' = IF saved THEN disk \cup {CoverFileName} ELSE disk
          /\ written' = IF saved THEN written \cup {CoverFileName} ELSE written
    /\ UNCHANGED << rret, planIdx, rtasks, rskipped, rworkers, served, rcount,
                    rpictures >>
    /\ RunFrame

\* downloadCover: the request for maxUrl succeeds.
CoverMaxOk ==
    CoverDelivered(<< [url |-> MaxUrl(coverUrl), ok |-> TRUE] >>)

\* downloadCover: the request for maxUrl fails (an error or an error status),
\* the request for the given URL succeeds.
CoverFallbackOk ==
    CoverDelivered(<< [url |-> MaxUrl(coverUrl), ok |-> FALSE],
                      [url |-> coverUrl, ok |-> TRUE] >>)

\* e.downloadCover delivers the image (the _org variant or the given URL).
CoverOk ==
    \/ CoverMaxOk
    \/ CoverFallbackOk

\* Variant: a cover that cannot be fetched ends the call with an error.
CoverFailAborts ==
    /\ rpc = "cover"
    /\ image
    /\ rpc' = "returned"
    /\ rret' = "error"
    /\ coverReqs' = << [url |-> MaxUrl(coverUrl), ok |-> FALSE],
                       [url |-> coverUrl, ok |-> FALSE] >>
    /\ rcover' = <<>>
    /\ UNCHANGED << disk, planIdx, rtasks, rskipped, rworkers, served,
                    rcount, fetched, written, rpictures >>
    /\ RunFrame

\* Both requests of e.downloadCover fail: coverData is nil, "Failed
\* (continuing without cover)".
CoverFail ==
    /\ rpc = "cover"
    /\ image
    /\ rpc' = "plan"
    /\ coverReqs' = << [url |-> MaxUrl(coverUrl), ok |-> FALSE],
                       [url |-> coverUrl, ok |-> FALSE] >>
    /\ rcover' = <<>>
    /\ UNCHANGED << disk, rret, planIdx, rtasks, rskipped, rworkers, served,
                    rcount, fetched, written, rpictures >>
    /\ RunFrame

\* Variant: the planning loop puts a new task in front of the list.
PlanStepPrepend ==
    /\ rpc = "plan"
    /\ planIdx < Len(album)
    /\ LET i == planIdx + 1
           trackPath == TrackFileName(album[i])
       IN /\ planIdx' = i
          /\ IF trackPath \in disk
             THEN /\ rskipped' = rskipped + 1
                  /\ rtasks' = rtasks
             ELSE /\ rskipped' = rskipped
                  /\ rtasks' = << [Index |-> i, TrackPath |-> trackPath] >> \o rtasks
    /\ UNCHANGED << rpc, disk, rret, rworkers, served, rcount, fetched, written >>
    /\ CoverKept
    /\ RunFrame

\* One iteration of the planning loop over album.Tracks.Items.
PlanStep ==
    /\ rpc = "plan"
    /\ planIdx < Len(album)
    /\ LET i == planIdx + 1
           trackPath == TrackFileName(album[i])
       IN /\ planIdx' = i
          /\ IF trackPath \in disk
             THEN /\ rskipped' = rskipped + 1
                  /\ rtasks' = rtasks
             ELSE /\ rskipped' = rskipped
                  /\ rtasks' = Append(rtasks, [Index |-> i, TrackPath |-> trackPath])
    /\ UNCHANGED << rpc, disk, rret, rworkers, served, rcount, fetched, written >>
    /\ CoverKept
    /\ RunFrame

\* if len(tasks) == 0 { ...; return nil }
PlanEmpty ==
    /\ rpc = "plan"
    /\ planIdx = Len(album)
    /\ rtasks = <<>>
    /\ rpc' = "returned"
    /\ rret' = "nil"
    /\ UNCHANGED << disk, planIdx, rtasks, rskipped, rworkers, served, rcount,
                    fetched, written >>
    /\ CoverKept
    /\ RunFrame

\* The workers are started.
StartPool ==
    /\ rpc = "plan"
    /\ planIdx = Len(album)
    /\ rtasks # <<>>
    /\ rpc' = "pool"
    /\ rworkers' = NumWorkers(concurrency, Len(rtasks))
    /\ UNCHANGED << disk, rret, planIdx, rtasks, rskipped, served, rcount,
                    fetched, written >>
    /\ CoverKept
    /\ RunFrame

\* A worker's iteration for task t: GetTrackURL fails.
ServeUrlFail(t) ==
    /\ rpc = "pool"
    /\ t \notin served
    /\ served' = served \cup {t}
    /\ rcount' = [rcount EXCEPT !.failed = @ + 1]
    /\ UNCHANGED << rpc, disk, rret, planIdx, rtasks, rskipped, rworkers,
                    fetched, written >>
    /\ CoverKept
    /\ RunFrame

\* A worker's iteration for task t: the transfer fails; what it had written to
\* task.TrackPath by then may stay on disk.
ServeXferFail(t) ==
    /\ rpc = "pool"
    /\ t \notin served
    /\ served' = served \cup {t}
    /\ rcount' = [rcount EXCEPT !.failed = @ + 1]
    /\ \E left \in BOOLEAN :
          /\ disk' = IF left THEN disk \cup {rtasks[t].TrackPath} ELSE disk
          /\ written' = IF left THEN written \cup {rtasks[t].TrackPath}
                        ELSE written
    /\ UNCHANGED << rpc, rret, planIdx, rtasks, rskipped, rworkers, fetched >>
    /\ CoverKept
    /\ RunFrame

\* A worker's iteration for task t: the transfer writes task.TrackPath, the
\* tags are written (or not: the result is dropped), the track is Complete.
\* WriteTags is given coverData and appends a picture block if it has bytes.
ServeOk(t) ==
    /\ rpc = "pool"
    /\ t \notin served
    /\ served' = served \cup {t}
    /\ rcount' = [rcount EXCEPT !.success = @ + 1]
    /\ fetched' = fetched + 1
    /\ disk' = disk \cup {rtasks[t].TrackPath}
    /\ written' = written \cup {rtasks[t].TrackPath}
    /\ rpictures' = rpictures + Len(PutPicture(<<>>, rcover))
    /\ UNCHANGED << rpc, rret, planIdx, rtasks, rskipped, rworkers,
                    coverReqs, rcover >>
    /\ RunFrame

\* wg.Wait() returns, the summary is printed, return nil.
RunSummary ==
    /\ rpc = "pool"
    /\ served = 1..Len(rtasks)
    /\ rpc' = "returned"
    /\ rret' = "nil"
    /\ UNCHANGED << disk, planIdx, rtasks, rskipped, rworkers, served, rcount,
                    fetched, written >>
    /\ CoverKept
    /\ RunFrame

\* The command is run again on the same album and output directory.
Rerun ==
    /\ rpc = "returned"
    /\ runNo = 1
    /\ runNo' = 2
    /\ diskAtStart' = disk
    /\ rpc' = "get_album"
    /\ rret' = "none"
    /\ planIdx' = 0
    /\ rtasks' = <<>>
    /\ rskipped' = 0
    /\ rworkers' = 0
    /\ served' = {}
    /\ rcount' = [success |-> 0, failed |-> 0]
    /\ fetched' = 0
    /\ written' = {}
    /\ coverReqs' = <<>>
    /\ rcover' = <<>>
    /\ rpictures' = 0
    /\ UNCHANGED << albumVars, concVars, trackVars, libVars, concurrency, album,
                    image, coverUrl, disk >>

NextRuns ==
    \/ RunGetAlbumOk
    \/ RunGetAlbumFail
    \/ RunMkdirOk
    \/ RunMkdirFail
    \/ CoverNone
    \/ CoverOk
    \/ CoverFail
    \/ PlanStep
    \/ PlanEmpty
    \/ StartPool
    \/ \E t \in 1..Len(rtasks) : ServeUrlFail(t)
    \/ \E t \in 1..Len(rtasks) : ServeXferFail(t)
    \/ \E t \in 1..Len(rtasks) : ServeOk(t)
    \/ RunSummary
    \/ Rerun

SpecRuns == InitRuns /\ [][NextRuns]_vars

\* ------------------------------------------------------------ configuration

(***************************************************************************)
(* The Engine's Concurrency field from New on, and the number of workers   *)
(* an album download starts with it.                                       *)
(***************************************************************************)

\* Largest argument given to SetConcurrency, and the arguments.
MaxFlag == 12
Flags == -2..MaxFlag
\* Largest number of planned tasks.
MaxTaskCount == 12

\* Concurrency: 3 in New.
DefaultConcurrency == 3

\* What the steps below leave alone.
confFrame ==
    UNCHANGED << mpc, retErr, tasks, skipped, sendIdx, summary, chanVars,
                 sharedVars, workerVars, histVars, displayVars, stateMu, wg,
                 existing, cancelled, runVars, trackVars, libVars >>

\* eng := engine.New(client)
InitConc ==
    /\ PoolIdle
    /\ RunsIdle
    /\ TrackIdle
    /\ ConcIdle
    /\ LibIdle
    /\ concurrency = DefaultConcurrency

\* eng.SetConcurrency(n), between album downloads.
CallSetConcurrency(n) ==
    /\ ntasks = 0
    /\ concurrency' = SetConcurrency(n)
    /\ flag' = <<n>>
    /\ UNCHANGED << numWorkers, ntasks >>
    /\ confFrame

\* DownloadAlbum has planned k tasks (k > 0) and computes numWorkers.
AlbumStartsWorkers(k) ==
    /\ ntasks = 0
    /\ ntasks' = k
    /\ numWorkers' = NumWorkers(concurrency, k)
    /\ UNCHANGED << concurrency, flag >>
    /\ confFrame

\* DownloadAlbum returns.
AlbumReturns ==
    /\ ntasks > 0
    /\ ntasks' = 0
    /\ numWorkers' = 0
    /\ UNCHANGED << concurrency, flag >>
    /\ confFrame

NextConc ==
    \/ \E n \in Flags : CallSetConcurrency(n)
    \/ \E k \in 1..MaxTaskCount : AlbumStartsWorkers(k)
    \/ AlbumReturns

SpecConc == InitConc /\ [][NextConc]_vars

\* ------------------------------------------------------------ DownloadTrack

(***************************************************************************)
(* Engine.DownloadTrack: one track, no worker pool.  tsteps records every  *)
(* step the call has made and whether it succeeded.                        *)
(***************************************************************************)

\* What the steps of DownloadTrack leave alone.
trackFrame ==
    UNCHANGED << mainVars, chanVars, sharedVars, workerVars, histVars,
                 displayVars, stateMu, wg, existing, concurrency, runVars,
                 concVars, libVars >>

Step(name, ok) == [step |-> name, ok |-> ok]

\* The call starts with a live ctx; track.Album is what GetTrack will deliver.
InitTrack ==
    /\ PoolIdle
    /\ RunsIdle
    /\ ConcIdle
    /\ LibIdle
    /\ concurrency = DefaultConcurrency
    /\ tpc = "lookup"
    /\ tret = "none"
    /\ tsteps = <<>>
    /\ talbum \in {"nil", "no_image", "image"}
    /\ tcover = "none"
    /\ tfile = "absent"
    /\ tgot = 0
    /\ warnings = 0

\* track, err := e.Client.GetTrack(trackID)
TrackLookupOk ==
    /\ tpc = "lookup"
    /\ tpc' = "url"
    /\ tsteps' = Append(tsteps, Step("lookup", TRUE))
    /\ UNCHANGED << tret, talbum, tcover, tfile, tgot, warnings, cancelled >>
    /\ trackFrame

TrackLookupFail ==
    /\ tpc = "lookup"
    /\ tpc' = "returned"
    /\ tret' = "error"
    /\ tsteps' = Append(tsteps, Step("lookup", FALSE))
    /\ UNCHANGED << talbum, tcover, tfile, tgot, warnings, cancelled >>
    /\ trackFrame

\* info, err := e.Client.GetTrackURL(trackID, quality)
TrackUrlOk ==
    /\ tpc = "url"
    /\ tpc' = "mkdir"
    /\ tsteps' = Append(tsteps, Step("url", TRUE))
    /\ UNCHANGED << tret, talbum, tcover, tfile, tgot, warnings, cancelled >>
    /\ trackFrame

TrackUrlFail ==
    /\ tpc = "url"
    /\ tpc' = "returned"
    /\ tret' = "error"
    /\ tsteps' = Append(tsteps, Step("url", FALSE))
    /\ UNCHANGED << talbum, tcover, tfile, tgot, warnings, cancelled >>
    /\ trackFrame

\* os.MkdirAll(outputDir, 0755)
TrackMkdirOk ==
    /\ tpc = "mkdir"
    /\ tpc' = "xfer"
    /\ tsteps' = Append(tsteps, Step("mkdir", TRUE))
    /\ UNCHANGED << tret, talbum, tcover, tfile, tgot, warnings, cancelled >>
    /\ trackFrame

TrackMkdirFail ==
    /\ tpc = "mkdir"
    /\ tpc' = "returned"
    /\ tret' = "error"
    /\ tsteps' = Append(tsteps, Step("mkdir", FALSE))
    /\ UNCHANGED << talbum, tcover, tfile, tgot, warnings, cancelled >>
    /\ trackFrame

\* e.downloadFile: the transport reports d bytes to onProgress; the output
\* file is being written.
TrackProgress ==
    /\ tpc = "xfer"
    /\ ~cancelled
    /\ \E d \in (tgot + 1)..MaxBytes : tgot' = d
    /\ tfile' = "partial"
    /\ UNCHANGED << tpc, tret, tsteps, talbum, tcover, warnings, cancelled >>
    /\ trackFrame

\* e.downloadFile returns nil: the audio file is complete.
TrackXferDone ==
    /\ tpc = "xfer"
    /\ ~cancelled
    /\ tpc' = "cover"
    /\ tfile' = "audio"
    /\ tsteps' = Append(tsteps, Step("transfer", TRUE))
    /\ UNCHANGED << tret, talbum, tcover, tgot, warnings, cancelled >>
    /\ trackFrame

\* e.downloadFile returns an error (transport error, HTTP error status, or ctx
\* cancelled); DownloadTrack returns it.  What was written stays as it is.
TrackXferFail ==
    /\ tpc = "xfer"
    /\ tpc' = "returned"
    /\ tret' = "error"
    /\ tsteps' = Append(tsteps, Step("transfer", FALSE))
    /\ UNCHANGED << talbum, tcover, tfile, tgot, warnings, cancelled >>
    /\ trackFrame

\* track.Album == nil or track.Album.Image.Large == "": no cover is fetched.
TrackCoverNone ==
    /\ tpc = "cover"
    /\ talbum # "image"
    /\ tpc' = "tag"
    /\ UNCHANGED << tret, tsteps, talbum, tcover, tfile, tgot, warnings,
                    cancelled >>
    /\ trackFrame

\* coverData, _ = e.downloadCover(track.Album.Image.Large)
TrackCoverOk ==
    /\ tpc = "cover"
    /\ talbum = "image"
    /\ tpc' = "tag"
    /\ tcover' = "fetched"
    /\ tsteps' = Append(tsteps, Step("cover", TRUE))
    /\ UNCHANGED << tret, talbum, tfile, tgot, warnings, cancelled >>
    /\ trackFrame

TrackCoverFail ==
    /\ tpc = "cover"
    /\ talbum = "image"
    /\ tpc' = "tag"
    /\ tcover' = "failed"
    /\ tsteps' = Append(tsteps, Step("cover", FALSE))
    /\ UNCHANGED << tret, talbum, tfile, tgot, warnings, cancelled >>
    /\ trackFrame

\* e.Tagger.WriteTags returns nil; return nil.
TrackTagOk ==
    /\ tpc = "tag"
    /\ tpc' = "returned"
    /\ tret' = "nil"
    /\ tfile' = "tagged"
    /\ tsteps' = Append(tsteps, Step("tag", TRUE))
    /\ UNCHANGED << talbum, tcover, tgot, warnings, cancelled >>
    /\ trackFrame

\* Variant: a tagging error is returned to the caller.
TrackTagFailFatal ==
    /\ tpc = "tag"
    /\ tpc' = "returned"
    /\ tret' = "error"
    /\ tsteps' = Append(tsteps, Step("tag", FALSE))
    /\ UNCHANGED << talbum, tcover, tfile, tgot, warnings, cancelled >>
    /\ trackFrame

\* e.Tagger.WriteTags returns an error: "Warning: Failed to tag file" is
\* printed; return nil.
TrackTagFail ==
    /\ tpc = "tag"
    /\ tpc' = "returned"
    /\ tret' = "nil"
    /\ warnings' = warnings + 1
    /\ tsteps' = Append(tsteps, Step("tag", FALSE))
    /\ UNCHANGED << talbum, tcover, tfile, tgot, cancelled >>
    /\ trackFrame

\* The caller cancels ctx while the call runs.
TrackCancel ==
    /\ tpc \notin {"off", "returned"}
    /\ ~cancelled
    /\ cancelled' = TRUE
    /\ UNCHANGED << trackVars >>
    /\ trackFrame

NextTrack ==
    \/ TrackLookupOk
    \/ TrackLookupFail
    \/ TrackUrlOk
    \/ TrackUrlFail
    \/ TrackMkdirOk
    \/ TrackMkdirFail
    \/ TrackProgress
    \/ TrackXferDone
    \/ TrackXferFail
    \/ TrackCoverNone
    \/ TrackCoverOk
    \/ TrackCoverFail
    \/ TrackTagOk
    \/ TrackTagFail
    \/ TrackCancel

SpecTrack == InitTrack /\ [][NextTrack]_vars

\* ------------------------------------------------------------ comment blocks

(***************************************************************************)
(* A VorbisComment value is extended with Add, serialized with Marshal,    *)
(* the payload is possibly damaged, and ParseVorbisComment reads it.       *)
(***************************************************************************)

\* Largest number of entries of a comment block.
MaxEntries == 2

\* Entries and vendor strings: "", "A", "A=B", "T=" followed by the two bytes of
\* U+00E9; "" and "x".
EntryStrings == { <<>>, <<65>>, <<65, 61, 66>>, <<84, 61, 195, 169>> }
VendorStrings == { <<>>, <<120>> }
\* Arguments of Add: the key "T" and the values "", "A", U+00E9.
AddKeys == { <<84>> }
AddValues == { <<>>, <<65>>, <<195, 169>> }

RECURSIVE SeqsUpTo(_, _)
SeqsUpTo(S, n) ==
    IF n = 0 THEN { <<>> }
    ELSE LET shorter == SeqsUpTo(S, n - 1)
         IN shorter \cup { Append(q, x) : q \in shorter, x \in S }

CommentBlocks ==
    [Vendor : VendorStrings, Comments : SeqsUpTo(EntryStrings, MaxEntries)]

codecFrame ==
    UNCHANGED << albumVars, concurrency, runVars, concVars, trackVars, flacVars,
                 nameVars, funVars >>

InitCodec ==
    /\ PoolIdle
    /\ RunsIdle
    /\ ConcIdle
    /\ TrackIdle
    /\ concurrency = DefaultConcurrency
    /\ FlacIdle
    /\ NamesIdle
    /\ FunIdle
    /\ cpc = "value"
    /\ cvc \in CommentBlocks
    /\ cbuf = <<>>
    /\ cintact = TRUE
    /\ cres = NoResult
    /\ cold = NoComment
    /\ clast = <<>>

\* vc.Add(key, value)
CodecAdd(key, value) ==
    /\ cpc = "value"
    /\ Len(cvc.Comments) < MaxEntries
    /\ cold' = cvc
    /\ clast' = <<key, value>>
    /\ cvc' = Add(cvc, key, value)
    /\ UNCHANGED << cpc, cbuf, cintact, cres >>
    /\ codecFrame

\* data := vc.Marshal()
CodecMarshal ==
    /\ cpc = "value"
    /\ cpc' = "buffer"
    /\ cbuf' = Marshal(cvc)
    /\ UNCHANGED << cvc, cintact, cres, cold, clast >>
    /\ codecFrame

\* The payload comes back from storage cut after k bytes.
CodecTruncate(k) ==
    /\ cpc = "buffer"
    /\ cintact
    /\ cbuf' = SubSeq(cbuf, 1, k)
    /\ cintact' = FALSE
    /\ UNCHANGED << cpc, cvc, cres, cold, clast >>
    /\ codecFrame

\* The payload comes back from storage with byte i changed to 127.
CodecCorrupt(i) ==
    /\ cpc = "buffer"
    /\ cintact
    /\ cbuf[i] # 127
    /\ cbuf' = [cbuf EXCEPT ![i] = 127]
    /\ cintact' = FALSE
    /\ UNCHANGED << cpc, cvc, cres, cold, clast >>
    /\ codecFrame

\* ParseVorbisComment(data)
CodecParse ==
    /\ cpc = "buffer"
    /\ cpc' = "parsed"
    /\ cres' \in ParseOutcomes(cbuf)
    /\ UNCHANGED << cvc, cbuf, cintact, cold, clast >>
    /\ codecFrame

NextCodec ==
    \/ \E key \in AddKeys, value \in AddValues : CodecAdd(key, value)
    \/ CodecMarshal
    \/ \E k \in 0..(Len(cbuf) - 1) : CodecTruncate(k)
    \/ \E i \in 1..Len(cbuf) : CodecCorrupt(i)
    \/ CodecParse

SpecCodec == InitCodec /\ [][NextCodec]_vars

\* ------------------------------------------------------------ WriteFlacTags

(***************************************************************************)
(* Calls of Tagger.WriteFlacTags on audio files that are on disk: each     *)
(* call parses the file, decodes the first text-tag block, adds the tags,  *)
(* puts the block back, appends the cover and saves.                       *)
(***************************************************************************)

\* Largest number of WriteFlacTags calls.
MaxCalls == 2

Paths == { "a.flac", "b.flac" }

\* Blocks WriteFlacTags has nothing to do with: stream info, padding, a
\* picture that is already there.
StreamInfoBlock == [Type |-> 0, Data |-> <<16, 0>>]
PaddingBlock == [Type |-> 1, Data |-> <<0, 0>>]
OldPicture == [Type |-> PictureBlockType, Data |-> PictureMarshal(<<9>>)]

\* Text-tag blocks: intact ones (the second has the entries "TITLE=" and
\* "A=B"), one that ends inside its first length field, one whose vendor
\* length is beyond the end, one whose entry count is 0x7F000000.
CommentBlock(vc) == [Type |-> VorbisCommentType, Data |-> Marshal(vc)]
EmptyComments == CommentBlock([Vendor |-> <<120>>, Comments |-> <<>>])
OldComments ==
    CommentBlock([Vendor |-> <<120>>,
                  Comments |-> << KeyTitle \o <<61>>, <<65, 61, 66>> >>])
ShortComments == [Type |-> VorbisCommentType, Data |-> <<1, 0, 0>>]
OverlongComments == [Type |-> VorbisCommentType, Data |-> <<5, 0, 0, 0, 120>>]
HugeComments ==
    [Type |-> VorbisCommentType, Data |-> <<0, 0, 0, 0, 0, 0, 0, 127>>]

\* A file flac.ParseFile cannot read.
Unreadable == [ok |-> FALSE, meta |-> <<>>]
Readable(meta) == [ok |-> TRUE, meta |-> meta]

FlacFiles ==
    { Unreadable,
      Readable(<< StreamInfoBlock >>),
      Readable(<< StreamInfoBlock, PaddingBlock >>),
      Readable(<< StreamInfoBlock, EmptyComments, PaddingBlock >>),
      Readable(<< StreamInfoBlock, OldPicture, OldComments, PaddingBlock >>),
      Readable(<< StreamInfoBlock, OldComments, EmptyComments >>),
      Readable(<< StreamInfoBlock, ShortComments, PaddingBlock >>),
      Readable(<< StreamInfoBlock, OverlongComments >>),
      Readable(<< StreamInfoBlock, PaddingBlock, HugeComments >>) }

\* The file at the other path.
OtherFile == Readable(<< StreamInfoBlock, EmptyComments >>)

\* Track and album metadata: every field set, every field empty, and every
\* field set but one.
FullTrack ==
    [Title |-> <<116>>, Version |-> <<118>>, Performer |-> <<112>>,
     TrackNumber |-> 12, MediaNumber |-> 1]
FullAlbum ==
    [Title |-> <<108>>, Artist |-> <<114>>,
     Genre |-> [isNil |-> FALSE, Name |-> <<103>>],
     ReleaseDateOrg |-> <<49>>, ReleaseDateStream |-> <<50>>]
EmptyTrack ==
    [Title |-> <<>>, Version |-> <<>>, Performer |-> <<>>,
     TrackNumber |-> 0, MediaNumber |-> 0]
EmptyAlbum ==
    [Title |-> <<>>, Artist |-> <<>>,
     Genre |-> [isNil |-> TRUE, Name |-> <<>>],
     ReleaseDateOrg |-> <<>>, ReleaseDateStream |-> <<>>]
Tracks ==
    { FullTrack, EmptyTrack,
      [FullTrack EXCEPT !.Title = <<>>],
      [FullTrack EXCEPT !.Version = <<>>],
      [FullTrack EXCEPT !.Performer = <<>>] }
AlbumMetas ==
    { FullAlbum, EmptyAlbum,
      [FullAlbum EXCEPT !.Title = <<>>],
      [FullAlbum EXCEPT !.Artist = <<>>],
      [FullAlbum EXCEPT !.Genre.Name = <<>>],
      [FullAlbum EXCEPT !.ReleaseDateOrg = <<>>],
      [FullAlbum EXCEPT !.ReleaseDateOrg = <<>>, !.ReleaseDateStream = <<>>] }
TagInputs ==
    { [track |-> t, album |-> FullAlbum] : t \in Tracks }
        \cup { [track |-> FullTrack, album |-> a] : a \in AlbumMetas }
        \cup { [track |-> EmptyTrack, album |-> EmptyAlbum] }

\* Cover bytes: none, or the first bytes of a JPEG image.
Covers == { <<>>, <<255, 216>> }

flacFrame ==
    UNCHANGED << albumVars, concurrency, runVars, concVars, trackVars, codecVars,
                 nameVars, funVars >>

InitFlac ==
    /\ PoolIdle
    /\ RunsIdle
    /\ ConcIdle
    /\ TrackIdle
    /\ CodecIdle
    /\ NamesIdle
    /\ FunIdle
    /\ concurrency = DefaultConcurrency
    /\ storage \in { [p \in Paths |-> IF p = "a.flac" THEN f ELSE OtherFile] :
                        f \in FlacFiles }
    /\ tagIn \in TagInputs
    /\ stored0 = storage
    /\ tagBefore = storage
    /\ tagArgs = NoCall
    /\ tagRes = "none"
    /\ tagCalls = 0
    /\ coverCalls = [p \in Paths |-> 0]

\* WriteFlacTags(filePath, track, album, coverData) is entered.
Call(path, coverData) ==
    /\ tagCalls < MaxCalls
    /\ tagCalls' = tagCalls + 1
    /\ tagBefore' = storage
    /\ tagArgs' = [path |-> path, track |-> tagIn.track, album |-> tagIn.album,
                   coverData |-> coverData]
    /\ UNCHANGED << tagIn, stored0 >>
    /\ flacFrame

\* What decoding the first text-tag block of the chain can do; with no such
\* block cmts stays nil and NewVorbisComment is used.
Decoded(meta) ==
    IF FirstComment(meta) = 0
    THEN { [kind |-> "ok", alloc |-> 0, vc |-> NewVorbisComment] }
    ELSE ParseOutcomes(meta[FirstComment(meta)].Data)

\* flac.ParseFile returns an error: the file is not a FLAC file, or cannot be
\* read.
FlacParseFileFail(path, coverData) ==
    /\ Call(path, coverData)
    /\ tagRes' = "failed to parse flac file"
    /\ UNCHANGED << storage, coverCalls >>

\* ParseVorbisComment returns an error.
FlacCommentsFail(path, coverData) ==
    /\ Call(path, coverData)
    /\ storage[path].ok
    /\ \E r \in Decoded(storage[path].meta) : r.kind = "error"
    /\ tagRes' = "failed to parse existing comments"
    /\ UNCHANGED << storage, coverCalls >>

\* ParseVorbisComment does not return: the process ends in make().
FlacCommentsFatal(path, coverData) ==
    /\ Call(path, coverData)
    /\ storage[path].ok
    /\ \E r \in Decoded(storage[path].meta) : r.kind = "fatal"
    /\ tagRes' = "fatal"
    /\ UNCHANGED << storage, coverCalls >>

\* The whole of WriteFlacTags, f.Save included, without error.
FlacSaved(path, coverData) ==
    /\ Call(path, coverData)
    /\ storage[path].ok
    /\ \E r \in Decoded(storage[path].meta) :
        /\ r.kind = "ok"
        /\ storage' = [storage EXCEPT ![path] =
               Readable(TaggedMeta(storage[path].meta, r.vc, tagIn.track,
                                   tagIn.album, coverData))]
    /\ tagRes' = "nil"
    /\ coverCalls' = IF Len(coverData) > 0
                     THEN [coverCalls EXCEPT ![path] = @ + 1]
                     ELSE coverCalls

\* f.Save returns an error: the file is as it was, or was opened for writing
\* and is not a FLAC file any more.
FlacSaveFail(path, coverData, damaged) ==
    /\ Call(path, coverData)
    /\ storage[path].ok
    /\ \E r \in Decoded(storage[path].meta) : r.kind = "ok"
    /\ storage' = IF damaged THEN [storage EXCEPT ![path] = Unreadable]
                  ELSE storage
    /\ tagRes' = "failed to save tags"
    /\ UNCHANGED coverCalls

NextFlac ==
    \E path \in Paths, coverData \in Covers :
        \/ FlacParseFileFail(path, coverData)
        \/ FlacCommentsFail(path, coverData)
        \/ FlacCommentsFatal(path, coverData)
        \/ FlacSaved(path, coverData)
        \/ \E damaged \in BOOLEAN : FlacSaveFail(path, coverData, damaged)

SpecFlac == InitFlac /\ [][NextFlac]_vars

\* ------------------------------------------------------------ sanitizeFilename

(***************************************************************************)
(* sanitizeFilename applied to names of every shape around the cap: a      *)
(* first and a last character, or none, around a run of one character.     *)
(***************************************************************************)

\* How far beyond the cap the names go.
MaxOver == 2

\* The characters of the names: a letter, the space, illegal characters (a
\* control byte among them), the replacement character.
NameChars == { "a", " ", "?", ":", "\t", "_" }
\* The character the middle of a name is made of.
RunChars == { "a", "/", " " }
RunLengths == { 0, 1 } \cup ((NameCap - 2)..(NameCap + MaxOver))

Repeat(c, n) == [i \in 1..n |-> c]

Names ==
    { first \o Repeat(c, n) \o last :
        first \in SeqsUpTo(NameChars, 1), last \in SeqsUpTo(NameChars, 1),
        c \in RunChars, n \in RunLengths }

nameFrame ==
    UNCHANGED << albumVars, concurrency, runVars, concVars, trackVars, codecVars,
                 flacVars, funVars >>

InitNames ==
    /\ PoolIdle
    /\ RunsIdle
    /\ ConcIdle
    /\ TrackIdle
    /\ CodecIdle
    /\ FlacIdle
    /\ FunIdle
    /\ concurrency = DefaultConcurrency
    /\ sname \in Names
    /\ sout = <<>>
    /\ spc = "name"

\* sanitizeFilename(name)
Sanitize ==
    /\ spc = "name"
    /\ spc' = "done"
    /\ sout' = sanitizeFilename(sname)
    /\ UNCHANGED sname
    /\ nameFrame

NextNames == Sanitize

SpecNames == InitNames /\ [][NextNames]_vars

\* ------------------------------------------------------------ properties

Status(t) == trackStates[t].Status
Progress(t) == trackStates[t].Progress
Downloading == {t \in TaskIdx : Status(t) = StatusDownloading}
\* The task's loop iteration is over: no worker is working on it.
Released(t) == \A w \in Workers : wtask[w] # t
ReturnedAfterWorkers == mpc = "returned" /\ retErr = "nil" /\ Len(tasks) > 0
FailureOutcomes == {"url_failed", "xfer_failed", "aborted", "refused"}
SuccessOutcomes == {"tag_ok", "tag_failed"}

\* C1: when DownloadAlbum returns after planning a non-empty task list, every
\* task is Complete or Failed and got its terminal status exactly once; at no
\* time has a task been given a terminal status twice.
C1_AllTerminalOnce ==
    /\ \A t \in DOMAIN termCount : termCount[t] <= 1
    /\ ReturnedAfterWorkers =>
          \A t \in TaskIdx : Status(t) \in Terminal /\ termCount[t] = 1

\* C1 witness: a run of two tasks on two workers has returned, one task
\* Complete and one Failed.
C1_Witness ==
    /\ ReturnedAfterWorkers
    /\ Len(tasks) = 2
    /\ numWorkers = 2
    /\ \E t, u \in TaskIdx : Status(t) = StatusComplete /\ Status(u) = StatusFailed

\* C2: a track's status changes only from Queued to Downloading and from
\* Downloading to Complete or Failed.
C2_StatusTransitions ==
    [][\A t \in TaskIdx :
          trackStates'[t].Status # Status(t) =>
             \/ Status(t) = StatusQueued /\ trackStates'[t].Status = StatusDownloading
             \/ Status(t) = StatusDownloading /\ trackStates'[t].Status \in Terminal
      ]_vars

\* C2 witness: both terminal statuses have been assigned on one album: the
\* first task Failed after its URL request failed, the second Complete.
C2_Witness ==
    /\ Len(tasks) = 2
    /\ Status(1) = StatusFailed
    /\ Status(2) = StatusComplete
    /\ outcome[1] = "url_failed"

\* C3: the number of tracks whose status is Downloading never exceeds
\* min(Concurrency, number of tasks), in every state (so in every state a
\* lock holder, the display snapshot included, can observe).
C3_ConcurrencyBound ==
    Cardinality(Downloading) <= Min(concurrency, Len(tasks))

\* C3 witness: the display goroutine holds the lock for a snapshot of an album
\* with more tasks than workers, and the bound is reached.
C3_Witness ==
    /\ dpc = "snapshot"
    /\ stateMu = DisplayThread
    /\ concurrency = 1
    /\ Len(tasks) = 2
    /\ Cardinality(Downloading) = 1
    /\ Status(1) \in Terminal

\* C4: at return a task is Failed exactly when its own signed-URL request or
\* its own transfer failed, and Complete exactly when its own transfer
\* succeeded.
C4_OwnOutcomeDecides ==
    ReturnedAfterWorkers =>
       \A t \in TaskIdx :
          /\ outcome[t] \in FailureOutcomes \cup SuccessOutcomes
          /\ outcome[t] \in FailureOutcomes <=> Status(t) = StatusFailed
          /\ outcome[t] \in SuccessOutcomes <=> Status(t) = StatusComplete

\* C4 witness: two workers, the first task's URL request failed and the second
\* task's transfer succeeded.
C4_Witness ==
    /\ ReturnedAfterWorkers
    /\ numWorkers = 2
    /\ outcome[1] = "url_failed" /\ Status(1) = StatusFailed
    /\ outcome[2] \in SuccessOutcomes /\ Status(2) = StatusComplete

\* C5: once the iteration of a task whose transfer succeeded is over, the task
\* is Complete with progress 100, whether WriteTags succeeded or failed.
C5_TagErrorNotFatal ==
    \A t \in TaskIdx :
       (outcome[t] \in SuccessOutcomes /\ Released(t)) =>
          (Status(t) = StatusComplete /\ Progress(t) = 100)

\* C5 witness: WriteTags failed for a task and the task is Complete, 100.
C5_Witness ==
    \E t \in TaskIdx :
       /\ outcome[t] = "tag_failed"
       /\ Released(t)
       /\ Status(t) = StatusComplete
       /\ Progress(t) = 100

\* C6: a track's progress is always in 0..100, never decreases while the
\* track is Downloading, and a Complete or Failed track state never changes.
C6_ProgressMonotone ==
    /\ [](\A t \in TaskIdx : Progress(t) \in 0..100)
    /\ [][\A t \in TaskIdx :
             /\ Status(t) = StatusDownloading =>
                   trackStates'[t].Progress >= Progress(t)
             /\ Status(t) \in Terminal => trackStates'[t] = trackStates[t]
         ]_vars

\* C6 witness: a transfer reported more bytes than the Content-Length after
\* an intermediate report, and the track shows the capped 100 while Downloading.
C6_Witness ==
    \E w \in Workers :
       /\ wpc[w] = "xfer"
       /\ wclen[w] > 0
       /\ wgot[w] > wclen[w]
       /\ Status(wtask[w]) = StatusDownloading
       /\ Progress(wtask[w]) = 100

\* The order in which output may follow output on the terminal.
OutputOrder ==
    \/ lastOutput' = lastOutput
    \/ lastOutput \in {"none", "periodic"} /\ lastOutput' \in {"periodic", "final"}
    \/ lastOutput = "final" /\ lastOutput' = "summary"

\* C7: the stop signal is sent only after every worker has exited; the final
\* content is built and rendered only after the display goroutine has exited;
\* no periodic render follows the final render and the summary follows it; the
\* final content shows every slot idle and every task terminal.
C7_ShutdownOrdered ==
    /\ [](stopDisplay => (wg = 0 /\ AllWorkersDone))
    /\ [](mpc \in {"final_lock", "final_build", "final_render", "summary"}
             => dpc = "done")
    /\ [](lastOutput \in {"final", "summary"} => dpc = "done")
    /\ [](finalContent # <<>> =>
             /\ \A i \in DOMAIN finalContent[1].slots :
                   finalContent[1].slots[i] = 0
             /\ \A t \in DOMAIN finalContent[1].states :
                   finalContent[1].states[t].Status \in Terminal)
    /\ [][OutputOrder]_vars

\* C7 witness: a run with two workers has shut down: periodic renders were
\* made, the final content was built and rendered, the summary printed.
C7_Witness ==
    /\ mpc = "returned"
    /\ numWorkers = 2
    /\ finalContent # <<>>
    /\ lastOutput = "summary"
    /\ summary.printed

\* C8: the holder of stateMu is at an in-memory update or read of the shared
\* structure; a worker in the signed-URL request, the transfer or tagging, and
\* the display goroutine while it writes to the terminal, do not hold it.
C8_LockOnlyInMemory ==
    /\ \A w \in Workers :
          /\ stateMu = Worker(w) =>
                wpc[w] \in {"mark", "urlfail", "cb", "xferfail", "complete"}
          /\ wpc[w] \in {"url", "xfer", "tag"} => stateMu # Worker(w)
    /\ stateMu = DisplayThread => dpc = "snapshot"
    /\ dpc = "render" => stateMu # DisplayThread
    /\ stateMu = MainThread => mpc = "final_build"
    /\ mpc = "final_render" => stateMu # MainThread

\* C8 witness: one worker holds the lock for a progress update while the other
\* worker is transferring and the display goroutine writes to the terminal.
C8_Witness ==
    /\ numWorkers = 2
    /\ stateMu = Worker(1)
    /\ wpc[1] = "cb"
    /\ wpc[2] = "xfer"
    /\ dpc = "render"

\* C9: a thread about to read or write the shared structure holds stateMu,
\* except the orchestrator's summary loop, which runs when every worker and
\* the display goroutine have terminated; and the shared structure changes
\* only in a step of the lock holder (or in planning, before any goroutine
\* is started).
C9_SharedAccessLocked ==
    /\ [](\A w \in Workers :
             wpc[w] \in {"mark", "urlfail", "cb", "xferfail", "complete"}
                => stateMu = Worker(w))
    /\ [](dpc = "snapshot" => stateMu = DisplayThread)
    /\ [](mpc = "final_build" => stateMu = MainThread)
    /\ [](mpc = "summary" => (AllWorkersDone /\ wg = 0 /\ dpc = "done"))
    /\ [][sharedVars' # sharedVars =>
             \/ mpc = "plan"
             \/ stateMu # NoThread /\ stateMu' = NoThread]_vars

\* C9 witness: the orchestrator is at the unlocked summary loop after a run
\* with two workers.
C9_Witness ==
    /\ mpc = "summary"
    /\ numWorkers = 2
    /\ stateMu = NoThread

\* C10 (as stated): cancelling ctx aborts the transfer in flight of one worker
\* only.
C10_OnlyOneAborted ==
    Cardinality({t \in TaskIdx : outcome[t] = "aborted"}) <= 1

\* C10 (amended): cancelling ctx may abort the transfer in flight of every
\* worker; each task whose transfer was aborted, or refused because it was
\* started after the cancellation, is recorded Failed; and once ctx is
\* cancelled a task that is already Complete or Failed keeps its status.
C10_CancelAbortsTransfers ==
    /\ [](\A t \in TaskIdx :
             (outcome[t] \in {"aborted", "refused"} /\ Released(t))
                => Status(t) = StatusFailed)
    /\ [][cancelled' =>
             \A t \in TaskIdx :
                Status(t) \in Terminal => trackStates'[t].Status = Status(t)]_vars

\* C10 witness: two transfers in flight were aborted by the cancellation, both
\* tasks are Failed.
C10_Witness ==
    /\ cancelled
    /\ Len(tasks) = 2
    /\ \A t \in TaskIdx :
          outcome[t] = "aborted" /\ Status(t) = StatusFailed

\* C11 (as stated): ctx is attached to every outbound call of DownloadAlbum,
\* so once ctx is cancelled no signed-URL request delivers a URL: a worker
\* waiting for GetTrackURL can only see it fail.
C11_CtxOnEveryCall ==
    [][\A w \in Workers :
          (cancelled /\ wpc[w] = "url") => wpc'[w] \in {"url", "urlfail"}]_vars

\* C12 (as stated): no two tasks of one DownloadAlbum call have the same
\* destination path.
C12_DistinctPaths ==
    \A i, j \in 1..Len(rtasks) :
        i # j => rtasks[i].TrackPath # rtasks[j].TrackPath

\* Every track of the album has its file in the given directory content.
AllTracksIn(d) == \A i \in 1..Len(album) : TrackFileName(album[i]) \in d

\* C13 (as stated): a second call of DownloadAlbum on a directory that holds
\* every track of the album transfers nothing over the network, counts every
\* track as skipped, plans no task, starts no worker and writes no file.
C13_SecondRunIdle ==
    (runNo = 2 /\ rpc = "returned" /\ rret = "nil" /\ AllTracksIn(diskAtStart))
        => /\ fetched = 0
           /\ rskipped = Len(album)
           /\ rtasks = <<>>
           /\ rworkers = 0
           /\ written = {}

\* C14: when the summary is printed, Success + Failed + Skipped is the number
\* of tracks of the album; a track whose destination file exists at planning
\* time is counted in Skipped, is no task, and so is never handled by a worker.
C14_SummaryAccounts ==
    /\ summary.printed =>
          /\ summary.success + summary.failed + summary.skipped = MaxTracks
          /\ summary.skipped = Cardinality(existing)
    /\ \A t \in TaskIdx : tasks[t] \notin existing
    /\ \A w \in Workers : wtask[w] # 0 => tasks[wtask[w]] \notin existing
    /\ Len(outcome) <= MaxTracks - Cardinality(existing)

\* C14 witness: a summary with a skipped track, a track downloaded and none
\* failed.
C14_Witness ==
    /\ summary.printed
    /\ summary.skipped >= 1
    /\ summary.success >= 1
    /\ summary.failed = 0

\* The call has finished its planning loop.
Planned == rpc \in {"plan", "pool", "returned"} /\ planIdx = Len(album)

\* C15: once planned, and for the rest of the call, the task list holds, in
\* album order, exactly the tracks whose computed destination file was not on
\* disk when the call planned, each with that computed path.
C15_TasksAreMissingTracksInOrder ==
    Planned =>
        /\ \A j, k \in 1..Len(rtasks) : j < k => rtasks[j].Index < rtasks[k].Index
        /\ {rtasks[k].Index : k \in 1..Len(rtasks)}
              = {i \in 1..Len(album) : TrackFileName(album[i]) \notin diskAtStart}
        /\ \A k \in 1..Len(rtasks) :
              rtasks[k].TrackPath = TrackFileName(album[rtasks[k].Index])

\* C15 witness: a second call has returned after its workers ran; its planning
\* skipped a track and planned another.
C15_Witness ==
    /\ runNo = 2
    /\ rpc = "returned"
    /\ rskipped >= 1
    /\ Len(rtasks) >= 1
    /\ served = 1..Len(rtasks)

Max(a, b) == IF a > b THEN a ELSE b

\* C16: after SetConcurrency(n) the Concurrency field is max(1, min(10, n)),
\* after New alone it is 3; an album download with a non-empty task list starts
\* exactly min(Concurrency, taskCount) workers, at least 1 and at most 10.
C16_WorkerCount ==
    /\ flag # <<>> => concurrency = Max(1, Min(10, flag[1]))
    /\ flag = <<>> => concurrency = DefaultConcurrency
    /\ ntasks > 0 =>
          /\ numWorkers = Min(concurrency, ntasks)
          /\ 1 <= numWorkers
          /\ numWorkers <= 10

\* C16 witness: SetConcurrency(12) was clamped to 10 and an album of more than
\* ten tasks started ten workers.
C16_Witness ==
    /\ flag = <<12>>
    /\ concurrency = 10
    /\ ntasks > 10
    /\ numWorkers = 10

\* The tasks handed to a worker so far: held by one now, or past Queued.
HandedOut ==
    ({wtask[w] : w \in Workers} \ {0})
        \cup {t \in TaskIdx : Status(t) # StatusQueued}

\* C17: the channel holds task indices in task-list order; the tasks handed out
\* are always the first ones of the list, so task i is dequeued before task j
\* for i < j; a task held by a worker is held by that worker only, is not in
\* the channel and has no final status yet, so it is dequeued once; and a worker
\* has left its loop only if the channel is closed and empty.
C17_FifoHandOut ==
    /\ \A k \in 1..Len(taskChan) :
          taskChan[k] = sendIdx - Len(taskChan) + k
    /\ HandedOut = 1..(sendIdx - Len(taskChan))
    /\ \A w \in Workers :
          wtask[w] # 0 =>
             /\ \A v \in Workers \ {w} : wtask[v] # wtask[w]
             /\ \A k \in 1..Len(taskChan) : taskChan[k] # wtask[w]
             /\ Status(wtask[w]) \notin Terminal
    /\ \A w \in Workers :
          wpc[w] = "done" => chanClosed /\ taskChan = <<>>

\* C17 witness: task 1 is finished and its worker has left the loop while the
\* other worker still holds task 2.
C17_Witness ==
    \E w, v \in Workers :
        /\ wpc[w] = "done"
        /\ wtask[v] = 2
        /\ Status(1) \in Terminal

\* C18: if DownloadAlbum returned an error, it returned before planning (the
\* album lookup or the directory creation failed): no task was planned, no
\* track skipped, no worker and no display goroutine started; and a call that
\* has started workers never has an error result, it returns nil.
C18_ErrorOnlyFromSetup ==
    /\ retErr = "error" =>
          /\ mpc = "returned"
          /\ tasks = <<>> /\ skipped = 0
          /\ Workers = {} /\ numWorkers = 0
          /\ dpc = "off"
    /\ Workers # {} => retErr # "error"
    /\ (Workers # {} /\ mpc = "returned") => retErr = "nil"

\* C18 witness: every one of two tasks failed and DownloadAlbum returned nil.
C18_Witness ==
    /\ mpc = "returned"
    /\ retErr = "nil"
    /\ Len(tasks) = 2
    /\ summary.failed = 2
    /\ \A t \in TaskIdx : Status(t) = StatusFailed

\* The steps of DownloadTrack whose failure is returned, and the order of all
\* its steps.
FatalSteps == {"lookup", "url", "mkdir", "transfer"}
StepRank(name) ==
    CASE name = "lookup" -> 1
      [] name = "url" -> 2
      [] name = "mkdir" -> 3
      [] name = "transfer" -> 4
      [] name = "cover" -> 5
      [] name = "tag" -> 6
FatalFailure ==
    \E k \in 1..Len(tsteps) : tsteps[k].step \in FatalSteps /\ ~tsteps[k].ok

\* C19: DownloadTrack makes its steps in the order lookup, signed URL,
\* directory, transfer, cover, tagging; none of the first four is skipped, and
\* no step follows a failed one of them (so no transfer after a failed lookup
\* or URL request, no tagging after a failed transfer); the call returns an
\* error exactly when one of these four failed, and nil otherwise, whatever
\* the cover download and the tagging did.
C19_TrackErrors ==
    /\ \A j, k \in 1..Len(tsteps) :
          j < k => /\ StepRank(tsteps[j].step) < StepRank(tsteps[k].step)
                   /\ tsteps[j].step \in FatalSteps => tsteps[j].ok
    /\ \A k \in 1..Len(tsteps) :
          tsteps[k].step \in FatalSteps => StepRank(tsteps[k].step) = k
    /\ tpc = "returned" =>
          /\ tret \in {"nil", "error"}
          /\ tret = "error" <=> FatalFailure
          /\ tret = "nil" => tsteps[Len(tsteps)].step = "tag"
    /\ tpc # "returned" => tret = "none" /\ ~FatalFailure

\* C19 witness: the cover download and the tagging both failed and
\* DownloadTrack returned nil.
C19_Witness ==
    /\ tpc = "returned"
    /\ tret = "nil"
    /\ tcover = "failed"
    /\ tsteps[Len(tsteps)] = Step("tag", FALSE)

\* C20 (as stated), for DownloadAlbum: once the iteration of a task whose
\* tagging failed is over, a warning has been printed for it and the task is
\* Complete.
C20_TagFailureWarns ==
    \A t \in TaskIdx :
        (outcome[t] = "tag_failed" /\ Released(t))
            => warnings > 0 /\ Status(t) = StatusComplete

\* C21: WriteTags is called at most once per task; the call is made only when
\* the task's transfer has returned successfully and the task is still
\* Downloading in its worker's slot; a task that is Complete has had its one
\* call, a task whose URL request or transfer failed, or that is Failed, none.
C21_TagOnceAfterTransfer ==
    /\ [](\A t \in TaskIdx :
             /\ tagCount[t] <= 1
             /\ Status(t) = StatusComplete => tagCount[t] = 1
             /\ Status(t) = StatusFailed => tagCount[t] = 0
             /\ outcome[t] \in FailureOutcomes => tagCount[t] = 0
             /\ (outcome[t] \in SuccessOutcomes /\ Released(t))
                   => Status(t) = StatusComplete)
    /\ [][\A w \in Workers :
             (wtask[w] # 0 /\ tagCount'[wtask[w]] # tagCount[wtask[w]])
                => /\ outcome[wtask[w]] = "transferred"
                   /\ Status(wtask[w]) = StatusDownloading
                   /\ threadTasks[w] = wtask[w]
                   /\ trackStates'[wtask[w]].Status = StatusDownloading
                   /\ threadTasks'[w] = wtask[w]]_vars

\* C21 witness: of two finished tasks one was tagged once and is Complete, the
\* other failed in its transfer and was never tagged.
C21_Witness ==
    /\ Len(tasks) = 2
    /\ AllWorkersDone
    /\ \E t, u \in TaskIdx :
          /\ Status(t) = StatusComplete /\ tagCount[t] = 1
          /\ Status(u) = StatusFailed /\ tagCount[u] = 0
          /\ outcome[u] = "xfer_failed"

\* C22: parsing what Marshal returned for a comment block succeeds and gives
\* back the block: the same vendor and the same entries in the same order.
C22_RoundTrip ==
    (cpc = "parsed" /\ cintact) =>
        /\ cres.kind = "ok"
        /\ cres.vc.Vendor = cvc.Vendor
        /\ cres.vc.Comments = cvc.Comments

\* C22 witness: a block with two equal entries and one with multi-byte text
\* (the second after an Add) went through Marshal and ParseVorbisComment.
C22_Witness ==
    /\ cpc = "parsed"
    /\ cintact
    /\ cres.kind = "ok"
    /\ Len(cvc.Comments) = 2
    /\ cvc.Comments[1] = <<84, 61, 195, 169>>
    /\ cvc.Comments[2] = cvc.Comments[1]
    /\ clast = << <<84>>, <<195, 169>> >>

\* The buffer ends before a length field, or a declared length or count is
\* more than what is left of it: reading it as the code reads it cannot finish.
Malformed(data) == ParseVorbisComment(data).kind = "error"

\* C23: on a buffer that ends before a length field, or in which a declared
\* vendor length, entry length or entry count exceeds what remains,
\* ParseVorbisComment returns an error and no comment block.
C23_MalformedIsError ==
    (cpc = "parsed" /\ Malformed(cbuf)) => cres.kind = "error"

\* What the code does on such buffers: it returns an error, or the process
\* ends in make() before anything is returned; it never returns a block.
C23_MalformedNeverParses ==
    (cpc = "parsed" /\ Malformed(cbuf)) => cres.kind \in {"error", "fatal"}

\* A malformed buffer with an entry count that fits was read and an error
\* returned.
C23_ErrorReturned ==
    /\ cpc = "parsed"
    /\ ~cintact
    /\ Len(cbuf) = 7
    /\ cres.kind = "error"

\* C24: Add(key, value) with an empty value leaves the entry list unchanged;
\* otherwise it appends the one entry key=value at the end and leaves the
\* vendor and every earlier entry, same key or not, as they were.
C24_AddAppendsOrSkips ==
    clast # <<>> =>
        /\ cvc.Vendor = cold.Vendor
        /\ IF clast[2] = <<>>
           THEN cvc.Comments = cold.Comments
           ELSE /\ Len(cvc.Comments) = Len(cold.Comments) + 1
                /\ SubSeq(cvc.Comments, 1, Len(cold.Comments)) = cold.Comments
                /\ cvc.Comments[Len(cvc.Comments)] = clast[1] \o <<61>> \o clast[2]

\* C24 witness: "T" = "A" was added to a block that already had an entry with
\* the key "T", and both are there.
C24_Witness ==
    /\ clast = << <<84>>, <<65>> >>
    /\ cold.Comments = << <<84, 61, 195, 169>> >>
    /\ cvc.Comments = << <<84, 61, 195, 169>>, <<84, 61, 65>> >>

\* The chain of the tagged file before and after the last WriteFlacTags call.
OldMeta == tagBefore[tagArgs.path].meta
NewMeta == storage[tagArgs.path].meta
CountType(meta, ty) == Cardinality({ j \in 1..Len(meta) : meta[j].Type = ty })
\* Number of picture blocks the last call was to append.
CoverBlocks == IF Len(tagArgs.coverData) > 0 THEN 1 ELSE 0

\* C25: a successful WriteFlacTags call on a chain with a text-tag block
\* replaces the payload of the first such block at its index and adds no
\* text-tag block; on a chain without one it appends exactly one; every other
\* block of the chain keeps its place, type and payload, and only a picture
\* block can follow.
C25_CommentBlockInPlace ==
    tagRes = "nil" =>
        LET i == FirstComment(OldMeta)
            n == Len(OldMeta)
        IN IF i > 0
           THEN /\ Len(NewMeta) = n + CoverBlocks
                /\ NewMeta[i].Type = VorbisCommentType
                /\ ParseVorbisComment(NewMeta[i].Data).kind = "ok"
                /\ \A j \in 1..n : j # i => NewMeta[j] = OldMeta[j]
                /\ CountType(NewMeta, VorbisCommentType)
                       = CountType(OldMeta, VorbisCommentType)
           ELSE /\ Len(NewMeta) = n + 1 + CoverBlocks
                /\ SubSeq(NewMeta, 1, n) = OldMeta
                /\ NewMeta[n + 1].Type = VorbisCommentType
                /\ ParseVorbisComment(NewMeta[n + 1].Data).kind = "ok"
                /\ CountType(NewMeta, VorbisCommentType) = 1

\* C25 witness: the second successful call on a file whose text-tag block is
\* the third of four blocks; the block is still the third and has new content.
C25_Witness ==
    /\ tagRes = "nil"
    /\ tagCalls = 2
    /\ tagArgs.path = "a.flac"
    /\ stored0["a.flac"].ok
    /\ Len(stored0["a.flac"].meta) = 4
    /\ stored0["a.flac"].meta[3] = OldComments
    /\ tagBefore["a.flac"] # stored0["a.flac"]
    /\ FirstComment(NewMeta) = 3
    /\ NewMeta[3].Data # OldMeta[3].Data
    /\ NewMeta[4] = PaddingBlock

\* C26: a successful WriteFlacTags call with cover bytes appends one picture
\* block holding them at the end of the chain and leaves every picture block
\* that was there in place; without cover bytes the picture blocks are as
\* before; so a file has as many more picture blocks as it had such calls.
C26_PictureAppended ==
    /\ tagRes = "nil" =>
        /\ \A j \in 1..Len(OldMeta) :
               OldMeta[j].Type = PictureBlockType => NewMeta[j] = OldMeta[j]
        /\ CountType(NewMeta, PictureBlockType)
               = CountType(OldMeta, PictureBlockType) + CoverBlocks
        /\ CoverBlocks = 1 =>
               LET last == NewMeta[Len(NewMeta)]
                   k == Len(tagArgs.coverData)
               IN /\ last.Type = PictureBlockType
                  /\ SubSeq(last.Data, Len(last.Data) - k + 1, Len(last.Data))
                         = tagArgs.coverData
    /\ \A p \in DOMAIN storage :
           storage[p].ok =>
               CountType(storage[p].meta, PictureBlockType)
                   = CountType(stored0[p].meta, PictureBlockType) + coverCalls[p]

\* C26 witness: two successful calls with a cover on a file that had one
\* picture; it has three, the old one where it was.
C26_Witness ==
    /\ tagRes = "nil"
    /\ coverCalls["a.flac"] = 2
    /\ Len(stored0["a.flac"].meta) = 4
    /\ stored0["a.flac"].meta[2] = OldPicture
    /\ storage["a.flac"].meta[2] = OldPicture
    /\ CountType(storage["a.flac"].meta, PictureBlockType) = 3

\* The last WriteFlacTags call was given a file that flac.ParseFile cannot
\* read, or one whose first text-tag block is malformed.
ParseFails ==
    /\ tagRes # "none"
    /\ \/ ~tagBefore[tagArgs.path].ok
       \/ /\ FirstComment(OldMeta) > 0
          /\ Malformed(OldMeta[FirstComment(OldMeta)].Data)

\* C27: when parsing the block chain or decoding the existing text-tag block
\* fails, WriteFlacTags returns an error and has written nothing: the file and
\* every other file are as before the call.
C27_ParseFailureReturnsError ==
    ParseFails =>
        /\ tagRes \in { "failed to parse flac file",
                        "failed to parse existing comments" }
        /\ storage = tagBefore

\* What the code does in that case: nothing is written, and the call returns
\* one of the two errors unless the process ends while decoding.
C27_ParseFailureWritesNothing ==
    ParseFails =>
        /\ tagRes \in { "failed to parse flac file",
                        "failed to parse existing comments", "fatal" }
        /\ storage = tagBefore

\* A call on a file with a truncated text-tag block returned the decoding
\* error.
C27_ErrorReturned ==
    /\ tagRes = "failed to parse existing comments"
    /\ tagArgs.path = "a.flac"
    /\ Len(tagBefore["a.flac"].meta) = 3
    /\ tagBefore["a.flac"].meta[2] = ShortComments

\* An entry is KEY=value: the position of its first '=', its key, its value.
EqAt(e) ==
    IF \E k \in 1..Len(e) : e[k] = 61
    THEN CHOOSE k \in 1..Len(e) : e[k] = 61 /\ \A j \in 1..(k - 1) : e[j] # 61
    ELSE Len(e) + 1
KeyOf(e) == SubSeq(e, 1, EqAt(e) - 1)
ValueOf(e) == SubSeq(e, EqAt(e) + 1, Len(e))

\* The entries of the first text-tag block of a chain (none without a block).
EntriesOf(meta) ==
    IF FirstComment(meta) = 0 THEN <<>>
    ELSE ParseVorbisComment(meta[FirstComment(meta)].Data).vc.Comments

\* The entries the last call added.
AddedEntries ==
    SubSeq(EntriesOf(NewMeta), Len(EntriesOf(OldMeta)) + 1, Len(EntriesOf(NewMeta)))

\* The value the arguments of the last call hold for each key.
SourceValues ==
    << <<KeyTitle, tagArgs.track.Title>>,
       <<KeyVersion, tagArgs.track.Version>>,
       <<KeyArtist, tagArgs.track.Performer>>,
       <<KeyAlbum, tagArgs.album.Title>>,
       <<KeyAlbumArtist, tagArgs.album.Artist>>,
       <<KeyTrackNumber, SprintD(tagArgs.track.TrackNumber)>>,
       <<KeyDiscNumber, SprintD(tagArgs.track.MediaNumber)>>,
       <<KeyGenre, IF tagArgs.album.Genre.isNil THEN <<>>
                   ELSE tagArgs.album.Genre.Name>>,
       <<KeyDate, IF tagArgs.album.ReleaseDateOrg # <<>>
                  THEN tagArgs.album.ReleaseDateOrg
                  ELSE tagArgs.album.ReleaseDateStream>> >>

\* C28: every entry a successful WriteFlacTags call adds to the text-tag block
\* has a non-empty value, and a field whose source value is empty adds no
\* entry (a field with a value adds one); the entries that were there stay.
C28_NoEmptyValues ==
    tagRes = "nil" =>
        LET before == EntriesOf(OldMeta)
            after == EntriesOf(NewMeta)
            added == SubSeq(after, Len(before) + 1, Len(after))
            src == SourceValues
        IN /\ SubSeq(after, 1, Len(before)) = before
           /\ \A k \in 1..Len(added) : ValueOf(added[k]) # <<>>
           /\ \A f \in 1..Len(src) :
                  IF src[f][2] # <<>>
                  THEN \E k \in 1..Len(added) :
                           added[k] = src[f][1] \o <<61>> \o src[f][2]
                  ELSE \A k \in 1..Len(added) : KeyOf(added[k]) # src[f][1]

\* C28 witness: a call with every text field empty and no genre on a file that
\* already had entries added the two numbers and nothing else.
C28_Witness ==
    /\ tagRes = "nil"
    /\ tagArgs.track = EmptyTrack
    /\ tagArgs.album = EmptyAlbum
    /\ Len(EntriesOf(OldMeta)) = 2
    /\ Len(AddedEntries) = 2
    /\ KeyOf(AddedEntries[1]) = KeyTrackNumber
    /\ KeyOf(AddedEntries[2]) = KeyDiscNumber

\* Both requests of downloadCover failed in this call.
BothCoverRequestsFailed ==
    /\ Len(coverReqs) = 2
    /\ ~coverReqs[1].ok
    /\ ~coverReqs[2].ok

\* C30: downloadCover requests the best-quality variant of the cover URL
\* first and the given URL only after that request failed; when both fail
\* DownloadAlbum goes on without cover bytes, its tagging appends no picture
\* block, and the call does not end with an error.
C30_CoverFallback ==
    /\ Len(coverReqs) <= 2
    /\ Len(coverReqs) >= 1 =>
           /\ image
           /\ coverReqs[1].url = MaxUrl(coverUrl)
    /\ Len(coverReqs) = 2 =>
           /\ ~coverReqs[1].ok
           /\ coverReqs[2].url = coverUrl
    /\ (Len(coverReqs) >= 1 /\ coverReqs[Len(coverReqs)].ok) => rcover # <<>>
    /\ BothCoverRequestsFailed =>
           /\ rcover = <<>>
           /\ rpictures = 0
           /\ rpc \in {"plan", "pool", "returned"}
           /\ rpc = "returned" => rret = "nil" /\ served = 1..Len(rtasks)

\* C30 witness: both requests failed for a URL with a 600-pixel variant, and
\* the call went on to download both tracks and returned nil.
C30_Witness ==
    /\ BothCoverRequestsFailed
    /\ coverReqs[1].url = <<"img", "_org.", "jpg">>
    /\ coverReqs[2].url = <<"img", "_600.", "jpg">>
    /\ rpc = "returned"
    /\ rret = "nil"
    /\ rcount.success = 2
    /\ rpictures = 0

\* C29: the name sanitizeFilename returns has none of the characters
\* < > : " / \ | ? * and no control byte, each of them being replaced by '_',
\* and is at most 200 units long.
C29_SanitizedName ==
    spc = "done" =>
        /\ \A i \in 1..Len(sout) : sout[i] \notin IllegalChars
        /\ Len(sout) <= 200
        /\ \E lead \in 0..Len(sname) :
               \A i \in 1..Len(sout) :
                   /\ lead + i <= Len(sname)
                   /\ IF sname[lead + i] \in IllegalChars
                      THEN sout[i] = "_"
                      ELSE sout[i] = sname[lead + i]

\* C29 witness: a name of 202 units, an illegal character at its start and
\* illegal characters all along, came back 200 units long and all '_'.
C29_Witness ==
    /\ spc = "done"
    /\ Len(sname) = 202
    /\ sname[1] = "?"
    /\ sname[100] = "/"
    /\ Len(sout) = 200
    /\ \A i \in 1..200 : sout[i] = "_"

\* C31: nothing that failed is tried again: within one call a task is served
\* (its signed URL requested, its transfer started) at most once, and no URL
\* of the cover is requested again after a request for it failed.
C31_NoRetry ==
    /\ rcount.success + rcount.failed = Cardinality(served)
    /\ Cardinality(served) <= Len(rtasks)
    /\ fetched <= Len(rtasks) + 1
    /\ \A i \in 1..Len(coverReqs) : \A j \in (i + 1)..Len(coverReqs) :
           ~coverReqs[i].ok => coverReqs[j].url # coverReqs[i].url

\* What holds of the cover: a second request is for the same URL only when the
\* given URL has no 600-pixel segment to replace.
C31_RetryOnlyWithoutVariant ==
    \A i \in 1..Len(coverReqs) : \A j \in (i + 1)..Len(coverReqs) :
        (~coverReqs[i].ok /\ coverReqs[j].url = coverReqs[i].url)
            => MaxUrl(coverUrl) = coverUrl

\* The tasks are never served twice, whatever the cover step did.
C31_TasksServedOnce ==
    /\ rcount.success + rcount.failed = Cardinality(served)
    /\ Cardinality(served) <= Len(rtasks)
    /\ fetched <= Len(rtasks) + 1


\* --------------------------------------------------------- Picture.Marshal

(***************************************************************************)
(* One call of Picture.Marshal on a picture drawn from Pictures.           *)
(***************************************************************************)

\* 300 bytes of image data: a length that needs two of its four bytes.
LongImage == [i \in 1..300 |-> i % 256]

\* Width, height, depth and colour count, all different, some above 2^24.
Dimensions ==
    { <<0, 0, 0, 0>>, <<600, 601, 24, 7>>,
      <<16909060, 84281096, 32, 256>> }

Pictures ==
    { [PictureType |-> t, MIME |-> m, Description |-> d, Width |-> dim[1],
       Height |-> dim[2], Depth |-> dim[3], ColorCount |-> dim[4],
       ImageData |-> img] :
        t \in {0, PictureTypeCoverFront, 20}, m \in {<<>>, MimeJpeg},
        d \in {<<>>, DescriptionCover, <<195, 169>>}, dim \in Dimensions,
        img \in {<<>>, <<255, 216>>, LongImage} }

\* What one helper call leaves alone.
funFrame ==
    UNCHANGED << albumVars, concurrency, runVars, concVars, trackVars, codecVars,
                 flacVars, nameVars >>

InitPicture ==
    /\ PoolIdle
    /\ RunsIdle
    /\ ConcIdle
    /\ TrackIdle
    /\ CodecIdle
    /\ FlacIdle
    /\ NamesIdle
    /\ concurrency = DefaultConcurrency
    /\ fpc = "args"
    /\ farg \in { [fn |-> "Picture.Marshal", p |-> p] : p \in Pictures }
    /\ fres = <<>>
    /\ DispIdle

\* p.Marshal()
MarshalPicture ==
    /\ fpc = "args"
    /\ farg.fn = "Picture.Marshal"
    /\ fpc' = "done"
    /\ fres' = Picture_Marshal(farg.p)
    /\ UNCHANGED << farg, dispVars >>
    /\ funFrame

NextPicture == MarshalPicture

SpecPicture == InitPicture /\ [][NextPicture]_vars

\* The integer four bytes spell when read high byte first.
ReadBE32(b, pos) ==
    16777216 * b[pos + 1] + 65536 * b[pos + 2] + 256 * b[pos + 3] + b[pos + 4]

\* C32: Picture.Marshal writes type, MIME length, MIME, description length,
\* description, width, height, depth, colour count, data length, data, in
\* this order; every integer is four big-endian bytes, every length is the
\* byte length of the field after it, and the output is
\* 32 + |MIME| + |description| + |data| bytes long.
C32_PictureLayout ==
    (fpc = "done" /\ farg.fn = "Picture.Marshal") =>
        LET p == farg.p
            m == Len(p.MIME)
            d == Len(p.Description)
            n == Len(p.ImageData)
        IN  /\ Len(fres) = 32 + m + d + n
            /\ \A i \in 1..Len(fres) : fres[i] \in 0..255
            /\ ReadBE32(fres, 0) = p.PictureType
            /\ ReadBE32(fres, 4) = m
            /\ SubSeq(fres, 9, 8 + m) = p.MIME
            /\ ReadBE32(fres, 8 + m) = d
            /\ SubSeq(fres, 13 + m, 12 + m + d) = p.Description
            /\ ReadBE32(fres, 12 + m + d) = p.Width
            /\ ReadBE32(fres, 16 + m + d) = p.Height
            /\ ReadBE32(fres, 20 + m + d) = p.Depth
            /\ ReadBE32(fres, 24 + m + d) = p.ColorCount
            /\ ReadBE32(fres, 28 + m + d) = n
            /\ SubSeq(fres, 33 + m + d, 32 + m + d + n) = p.ImageData

\* A picture with every field non-empty, dimensions above 2^24 and 300 bytes
\* of data has been marshalled.
C32_Witness ==
    /\ fpc = "done"
    /\ farg.fn = "Picture.Marshal"
    /\ farg.p.MIME = MimeJpeg
    /\ farg.p.Description = DescriptionCover
    /\ farg.p.Width = 16909060
    /\ farg.p.ImageData = LongImage
    /\ Len(fres) = 347


\* ------------------------------------------------- file name and tag writer

(***************************************************************************)
(* The name a downloaded track is written under and the tag writer         *)
(* WriteTags picks for it, for each quality and delivered format.          *)
(***************************************************************************)

\* strings.ToLower on the letters the file names here are made of.
ToLower(str) ==
    LET lower(c) ==
            CASE c = "A" -> "a" [] c = "C" -> "c" [] c = "F" -> "f"
              [] c = "L" -> "l" [] c = "M" -> "m" [] c = "P" -> "p"
              [] OTHER -> c
    IN [i \in 1..Len(str) |-> lower(str[i])]

\* strings.HasSuffix
HasSuffix(str, suffix) ==
    /\ Len(str) >= Len(suffix)
    /\ SubSeq(str, Len(str) - Len(suffix) + 1, Len(str)) = suffix

\* fileName := sanitizeFilename(fmt.Sprintf("%s - %s", track.Performer.Name,
\* track.Title)) + ".flac"
SingleFileName(track) ==
    sanitizeFilename(track.Performer \o <<" ", "-", " ">> \o track.Title)
        \o <<".", "f", "l", "a", "c">>

\* Tagger.WriteTags: the writer chosen by the lower-cased path's suffix.
TagWriter(filePath) ==
    LET lowerPath == ToLower(filePath)
    IN  IF HasSuffix(lowerPath, <<".", "m", "p", "3">>) THEN "WriteMp3Tags"
        ELSE IF HasSuffix(lowerPath, <<".", "f", "l", "a", "c">>)
        THEN "WriteFlacTags"
        ELSE "WriteFlacTags"

\* Quality IDs and the format GetTrackURL delivers for each (mime_type).
Deliveries ==
    { [quality |-> 5, mime |-> "audio/mpeg"],
      [quality |-> 6, mime |-> "audio/flac"],
      [quality |-> 7, mime |-> "audio/flac"],
      [quality |-> 27, mime |-> "audio/flac"] }

FormatTitles ==
    { <<"a">>, <<"a", ".", "m", "p", "3">>, <<"A", ".", "M", "P", "3">>,
      <<"a", ":", "b">> }

FormatTracks ==
    { [TrackNumber |-> n, Title |-> t, Performer |-> <<"x">>] :
        n \in {1, 12}, t \in FormatTitles }

InitFormat ==
    /\ PoolIdle
    /\ RunsIdle
    /\ ConcIdle
    /\ TrackIdle
    /\ CodecIdle
    /\ FlacIdle
    /\ NamesIdle
    /\ concurrency = DefaultConcurrency
    /\ fpc = "args"
    /\ farg \in { [fn |-> f, urlInfo |-> d, track |-> t] :
                    f \in {"DownloadAlbum", "DownloadTrack"},
                    d \in Deliveries, t \in FormatTracks }
    /\ fres = <<>>
    /\ DispIdle

\* DownloadAlbum: the task's path is planned, the delivery is written to it
\* and WriteTags is called on it.
AlbumFile ==
    /\ fpc = "args"
    /\ farg.fn = "DownloadAlbum"
    /\ fpc' = "done"
    /\ fres' = [file |-> TrackFileName(farg.track),
                tagger |-> TagWriter(TrackFileName(farg.track))]
    /\ UNCHANGED << farg, dispVars >>
    /\ funFrame

\* DownloadTrack: the same with the single-track name.
SingleFile ==
    /\ fpc = "args"
    /\ farg.fn = "DownloadTrack"
    /\ fpc' = "done"
    /\ fres' = [file |-> SingleFileName(farg.track),
                tagger |-> TagWriter(SingleFileName(farg.track))]
    /\ UNCHANGED << farg, dispVars >>
    /\ funFrame

NextFormat == AlbumFile \/ SingleFile

SpecFormat == InitFormat /\ [][NextFormat]_vars

FormatDone == fpc = "done" /\ farg.fn \in {"DownloadAlbum", "DownloadTrack"}

\* C33: the extension follows the delivered format: an MP3 delivery (quality
\* 5) is not written under a .flac name and is tagged by the MP3 tag writer;
\* a FLAC delivery is written under a .flac name and tagged by the FLAC one.
C33_ExtensionByFormat ==
    FormatDone =>
        IF farg.urlInfo.mime = "audio/mpeg"
        THEN /\ ~HasSuffix(ToLower(fres.file), <<".", "f", "l", "a", "c">>)
             /\ fres.tagger = "WriteMp3Tags"
        ELSE /\ HasSuffix(fres.file, <<".", "f", "l", "a", "c">>)
             /\ fres.tagger = "WriteFlacTags"

\* What the code does instead: every file is named .flac and tagged by the
\* FLAC tag writer, whatever was delivered and whatever the title ends in.
C33_AlwaysFlac ==
    FormatDone =>
        /\ HasSuffix(fres.file, <<".", "f", "l", "a", "c">>)
        /\ fres.tagger = "WriteFlacTags"


\* ------------------------------------------------------- slots and tracks

\* The slots that hold task t.
SlotsHolding(t) == {s \in DOMAIN threadTasks : threadTasks[s] = t}

\* C34: whatever a lock holder can observe is consistent: a slot holds task t
\* only if track t is Downloading and the slot's progress is track t's
\* progress; every Downloading track is held by exactly one slot; no two
\* slots hold the same task.
C34_SlotsMatchTracks ==
    /\ \A s \in DOMAIN threadTasks :
           threadTasks[s] # 0 =>
               /\ threadTasks[s] \in TaskIdx
               /\ Status(threadTasks[s]) = StatusDownloading
               /\ threadProgress[s] = trackStates[threadTasks[s]].Progress
    /\ \A t \in TaskIdx :
           Status(t) = StatusDownloading => Cardinality(SlotsHolding(t)) = 1
    /\ \A s, u \in DOMAIN threadTasks :
           (threadTasks[s] # 0 /\ threadTasks[s] = threadTasks[u]) => s = u

\* C34 witness: the display goroutine holds the lock for its snapshot while
\* two slots hold two different tasks, one of them with progress reported.
C34_Witness ==
    /\ stateMu = DisplayThread
    /\ dpc = "snapshot"
    /\ \E s, u \in DOMAIN threadTasks :
           /\ threadTasks[s] # 0
           /\ threadTasks[u] # 0
           /\ threadTasks[s] # threadTasks[u]
           /\ threadProgress[s] > 0
           /\ threadProgress[s] < 100


\* ------------------------------------------------------------ termination

(***************************************************************************)
(* DownloadAlbum under fair scheduling.  Every goroutine that can take a   *)
(* step eventually takes one; a call to the service, the transport or the  *)
(* tagger eventually returns; sync.Mutex hands the lock to every waiter    *)
(* eventually; a select whose stop case is ready eventually takes it.  The *)
(* ticker and the transport's progress reports are under no obligation.    *)
(***************************************************************************)

\* A step of the orchestrator.
MainStep ==
    \/ GetAlbumOk \/ GetAlbumFail \/ MkdirOk \/ MkdirFail \/ Plan
    \/ StartDisplay \/ StartWorkers \/ SendTask \/ CloseChan \/ WaitWorkers
    \/ StopDisplay \/ JoinDisplay \/ FinalLock \/ FinalBuild \/ FinalRender
    \/ Summary

\* A step of worker w that receives, returns from a call or takes the lock.
WorkerStep(w) ==
    /\ w \in Workers
    /\ \/ Dequeue(w) \/ WorkerExit(w) \/ LockForMark(w)
       \/ UrlOk(w) \/ UrlOkCancelled(w) \/ UrlFail(w)
       \/ XferDone(w) \/ XferFail(w) \/ XferAborted(w)
       \/ WriteTags(w)

\* A step of worker w that ends a critical section.
WorkerUnlock(w) ==
    /\ w \in Workers
    /\ \/ MarkDownloading(w) \/ MarkUrlFailed(w) \/ ProgressCallback(w)
       \/ MarkXferFailed(w) \/ MarkComplete(w)

FairSpec ==
    /\ Spec
    /\ SF_vars(MainStep)
    /\ \A w \in 1..MaxTracks : SF_vars(WorkerStep(w)) /\ WF_vars(WorkerUnlock(w))
    /\ SF_vars(DisplayStop)
    /\ WF_vars(DisplaySnapshot)
    /\ WF_vars(DisplayRender)

\* C35: when every call eventually returns, DownloadAlbum eventually
\* returns, with every worker exited and the render task ended; until then
\* the orchestrator can always put the next task into the queue.
C35_AlbumReturns ==
    /\ [](mpc = "send" /\ sendIdx < Len(tasks) => Len(taskChan) < Len(tasks))
    /\ <>[](/\ mpc = "returned"
            /\ AllWorkersDone
            /\ wg = 0
            /\ dpc \in {"off", "done"}
            /\ stateMu = NoThread)

\* C35 witness: the call has returned after two workers served two tasks and
\* ended, the render task rendered periodically and ended after the stop
\* signal, and nobody cancelled.
C35_Witness ==
    /\ mpc = "returned"
    /\ ~cancelled
    /\ Len(tasks) = 2
    /\ numWorkers = 2
    /\ AllWorkersDone
    /\ stopDisplay
    /\ dpc = "done"
    /\ summary.printed


\* ------------------------------------------------- cancellation and queue

\* Task t waits in the queue.
InQueue(t) == \E k \in 1..Len(taskChan) : taskChan[k] = t

\* Task t has been through the worker loop: marked, its signed-URL request
\* answered, one terminal status assigned.
Served(t) ==
    /\ t \in TaskIdx
    /\ Status(t) \in Terminal
    /\ outcome[t] # "none"
    /\ termCount[t] = 1

\* C36: workers do not look at ctx between tasks.  A task that is in the
\* queue when ctx is cancelled is still dequeued, marked Downloading, has its
\* signed-URL request answered and ends Complete or Failed; DownloadAlbum
\* still renders the final state, prints the summary and returns nil.
C36_CancelledQueueServed ==
    /\ [][\A w \in Workers :
             (wpc[w] = "recv" /\ wpc'[w] = "done") =>
                 (Len(taskChan) = 0 /\ chanClosed)
         ]_vars
    /\ [][\A t \in TaskIdx :
             (cancelled /\ Status(t) = StatusQueued) =>
                 trackStates'[t].Status \in {StatusQueued, StatusDownloading}
         ]_vars
    /\ (cancelled /\ \E t \in TaskIdx : InQueue(t)) ~>
           (/\ mpc = "returned"
            /\ retErr = "nil"
            /\ \A t \in TaskIdx : Served(t)
            /\ Len(finalContent) = 1
            /\ finalContent[1].states = trackStates
            /\ summary.printed)

\* C36 witness: with one worker and two tasks, the first transfer was aborted
\* by the cancellation; the second task, still queued then, had its
\* signed-URL request answered with a URL afterwards and ended Failed; the
\* call printed its summary and returned nil.
C36_Witness ==
    /\ mpc = "returned"
    /\ retErr = "nil"
    /\ cancelled
    /\ numWorkers = 1
    /\ Len(tasks) = 2
    /\ outcome[1] = "aborted"
    /\ outcome[2] = "refused"
    /\ Status(2) = StatusFailed
    /\ summary.printed
    /\ summary.failed = 2


\* ------------------------------------------------------- failed transfers

\* Task t is recorded Failed in this step.
FailsNow(t) ==
    /\ t \notin served
    /\ t \in served'
    /\ rcount'.failed = rcount.failed + 1

\* C37 (as stated): a task that fails leaves no file at its destination
\* path: if the path was free before the worker's iteration it is free after
\* it, so the next call plans the track again.
C37_FailedLeavesNoFile ==
    [][\A t \in 1..Len(rtasks) :
          (FailsNow(t) /\ rtasks[t].TrackPath \notin disk) =>
              rtasks[t].TrackPath \notin disk'
      ]_vars


\* ------------------------------------------------------- tagging an old file

\* The decoded first text-tag block of a chain that has one.
CommentsOf(meta) == ParseVorbisComment(meta[FirstComment(meta)].Data).vc

\* KEY=value for every field of the last call that has a value, in the
\* order TITLE, VERSION, ARTIST, ALBUM, ALBUMARTIST, TRACKNUMBER, DISCNUMBER,
\* GENRE, DATE.
WrittenEntries ==
    LET src == SelectSeq(SourceValues, LAMBDA f : f[2] # <<>>)
    IN [k \in 1..Len(src) |-> src[k][1] \o <<61>> \o src[k][2]]

\* The entries of a list that have key.
WithKey(entries, key) ==
    {k \in 1..Len(entries) : KeyOf(entries[k]) = key}

\* The file of the last call had been tagged by the call before it.
TaggedTwice ==
    /\ tagCalls = 2
    /\ tagRes = "nil"
    /\ tagBefore[tagArgs.path].ok
    /\ tagBefore[tagArgs.path] # stored0[tagArgs.path]

\* C38: on a file that has a text-tag block a successful WriteFlacTags call
\* keeps the block's vendor string and its entries in their order and
\* appends the new entries after them in the order TITLE, VERSION, ARTIST,
\* ALBUM, ALBUMARTIST, TRACKNUMBER, DISCNUMBER, GENRE, DATE; no entry is
\* removed or overwritten, so a second call on the file leaves two entries
\* more than the file first had for every key written.
C38_ExistingEntriesKept ==
    (tagRes = "nil" /\ FirstComment(OldMeta) # 0) =>
        LET old == CommentsOf(OldMeta)
            new == CommentsOf(NewMeta)
            added == WrittenEntries
        IN /\ new.Vendor = old.Vendor
           /\ new.Comments = old.Comments \o added
           /\ TaggedTwice =>
                  LET meta0 == stored0[tagArgs.path].meta
                      first == IF FirstComment(meta0) = 0 THEN NewVorbisComment
                               ELSE CommentsOf(meta0)
                  IN /\ new.Vendor = first.Vendor
                     /\ new.Comments = first.Comments \o added \o added
                     /\ \A k \in 1..Len(added) :
                            Cardinality(WithKey(new.Comments, KeyOf(added[k])))
                              = Cardinality(WithKey(first.Comments,
                                                    KeyOf(added[k]))) + 2

\* C38 witness: a file whose text-tag block had TITLE= and A=B was tagged
\* twice with all nine fields: 20 entries, three of them with key TITLE, the
\* old two first.
C38_Witness ==
    /\ TaggedTwice
    /\ tagArgs.path = "a.flac"
    /\ stored0["a.flac"].ok
    /\ Len(stored0["a.flac"].meta) = 4
    /\ stored0["a.flac"].meta[3] = OldComments
    /\ tagArgs.track = FullTrack
    /\ tagArgs.album = FullAlbum
    /\ Len(CommentsOf(NewMeta).Comments) = 20
    /\ Cardinality(WithKey(CommentsOf(NewMeta).Comments, KeyTitle)) = 3
    /\ CommentsOf(NewMeta).Comments[1] = KeyTitle \o <<61>>
    /\ CommentsOf(NewMeta).Comments[2] = <<65, 61, 66>>


\* ------------------------------------------------------------ terminal display

(***************************************************************************)
(* The displayState of one DownloadAlbum call: newDisplayState, the        *)
(* periodic renders of the display goroutine, then renderFinal.  What is   *)
(* written to the terminal is a sequence of tokens: the two escape         *)
(* sequences, the text of a line, and the newline.                         *)
(***************************************************************************)

\* Periodic renders followed in one call.
MaxRenders == 3

\* cfg.Width
DisplayWidth == 70

\* "\033[A" (cursor up) and "\033[2K" (clear line)
CursorUp == "ESC[A"
ClearLine == "ESC[2K"
Newline == "LF"
LineText == "text"

\* An environment variable: not set, set to the empty string, or set to a
\* value.
Unset == [set |-> FALSE]
SetTo(v) == [set |-> TRUE, value |-> v]

\* os.Getenv: the value, "" for a variable that is not set.
Getenv(v) == IF v.set THEN v.value ELSE ""

\* Variant: cursor control is always on.
getDisplayConfigAnsi(env) ==
    [Width |-> DisplayWidth, UseANSI |-> TRUE, MaxSongLines |-> 0]

\* getDisplayConfig()
getDisplayConfig(env) ==
    [Width |-> DisplayWidth,
     UseANSI |-> ~(Getenv(env.NO_COLOR) # "" \/ Getenv(env.TERM) = "dumb"),
     MaxSongLines |-> 0]

\* buildDisplayContent: three header lines, a line per worker, three header
\* lines, a line per track, a separator; every line ends with a newline.
buildDisplayContent(nWorkers, nTracks) ==
    [i \in 1..(2 * (3 + nWorkers + 3 + nTracks + 1)) |->
        IF i % 2 = 1 THEN LineText ELSE Newline]

\* strings.Count(content, "\n")
CountNewlines(content) ==
    Cardinality({i \in 1..Len(content) : content[i] = Newline})

\* The loop that writes cursor-up and clear-line n times.
Clearing(n) == [i \in 1..(2 * n) |-> IF i % 2 = 1 THEN CursorUp ELSE ClearLine]

Environments ==
    { [NO_COLOR |-> n, TERM |-> t] :
        n \in {Unset, SetTo(""), SetTo("1")},
        t \in {Unset, SetTo("dumb"), SetTo("xterm")} }

InitDisplay ==
    /\ PoolIdle
    /\ RunsIdle
    /\ ConcIdle
    /\ TrackIdle
    /\ CodecIdle
    /\ FlacIdle
    /\ NamesIdle
    /\ concurrency = DefaultConcurrency
    /\ fpc = "args"
    /\ farg \in { [fn |-> "display", env |-> e,
                    content |-> buildDisplayContent(w, t)] :
                    e \in Environments, w \in 1..MaxTracks, t \in 1..MaxTracks }
    /\ fres = <<>>
    /\ DispIdle

\* display := newDisplayState()
NewDisplayState ==
    /\ fpc = "args"
    /\ farg.fn = "display"
    /\ fpc' = "ticking"
    /\ config' = getDisplayConfig(farg.env)
    /\ lastLines' = 0
    /\ UNCHANGED << farg, fres, renders >>
    /\ funFrame

\* What both renders write before the content.
ClearPrevious ==
    IF config.UseANSI /\ lastLines > 0 THEN Clearing(lastLines) ELSE <<>>

\* display.clearAndRender(content)
ClearAndRender ==
    /\ fpc = "ticking"
    /\ Len(renders) < MaxRenders
    /\ renders' = Append(renders, ClearPrevious \o farg.content)
    /\ lastLines' = CountNewlines(farg.content)
    /\ UNCHANGED << fpc, farg, fres, config >>
    /\ funFrame

\* display.renderFinal(finalContent)
RenderFinal ==
    /\ fpc = "ticking"
    /\ fpc' = "done"
    /\ renders' = Append(renders, ClearPrevious \o farg.content)
    /\ lastLines' = 0
    /\ UNCHANGED << farg, fres, config >>
    /\ funFrame

NextDisplay == NewDisplayState \/ ClearAndRender \/ RenderFinal

SpecDisplay == InitDisplay /\ [][NextDisplay]_vars

\* The display of this call is being followed.
Displaying == fpc # "off" /\ farg.fn = "display"

\* The lines a render printed: the newlines it wrote.
LinesPrinted(k) == IF k = 0 THEN 0 ELSE CountNewlines(renders[k])

\* With plain output every render, the final one included, wrote its content
\* and nothing else; otherwise every render first moved up and cleared, once
\* for each line the render before it had printed, then wrote its content.
RendersFollow(plain) ==
    \A k \in 1..Len(renders) :
        IF plain
        THEN /\ renders[k] = farg.content
             /\ \A i \in 1..Len(renders[k]) :
                    renders[k][i] \notin {CursorUp, ClearLine}
        ELSE renders[k] = Clearing(LinesPrinted(k - 1)) \o farg.content

runeWidth(r) ==
    IF \/ r >= 4352 /\ r <= 4447
       \/ r >= 11904 /\ r <= 40959
       \/ r >= 43360 /\ r <= 43391
       \/ r >= 44032 /\ r <= 55295
       \/ r >= 63744 /\ r <= 64255
       \/ r >= 65040 /\ r <= 65055
       \/ r >= 65072 /\ r <= 65135
       \/ r >= 65280 /\ r <= 65376
       \/ r >= 65504 /\ r <= 65510
       \/ r >= 131072 /\ r <= 196607
       \/ r >= 196608 /\ r <= 262143
    THEN 2
    ELSE IF \/ r < 32
            \/ r = 127
            \/ r >= 8203 /\ r <= 8207
            \/ r >= 8232 /\ r <= 8238
            \/ r >= 65024 /\ r <= 65039
            \/ r = 65279
         THEN 0
         ELSE 1

\* stringDisplayWidth: the sum of the widths of the runes.
stringDisplayWidth(str) ==
    Cardinality({i \in 1..Len(str) : runeWidth(str[i]) = 1})
        + 2 * Cardinality({i \in 1..Len(str) : runeWidth(str[i]) = 2})

\* strings.Repeat of a one-rune string; nothing for n <= 0 here.
RepeatRune(r, n) == [i \in 1..n |-> r]

\* truncateToWidth
truncateToWidth(str, maxWidth) ==
    IF maxWidth <= 0 THEN <<>>
    ELSE IF maxWidth <= 3 THEN RepeatRune(46, maxWidth)
    ELSE IF stringDisplayWidth(str) <= maxWidth THEN str
    ELSE LET targetWidth == maxWidth - 3
             kept == CHOOSE k \in 0..Len(str) :
                        /\ stringDisplayWidth(SubSeq(str, 1, k)) <= targetWidth
                        /\ k < Len(str) =>
                               stringDisplayWidth(SubSeq(str, 1, k + 1))
                                   > targetWidth
         IN SubSeq(str, 1, kept) \o <<46, 46, 46>>

\* padRight
padRight(str, targetWidth) ==
    IF stringDisplayWidth(str) >= targetWidth
    THEN truncateToWidth(str, targetWidth)
    ELSE str \o RepeatRune(32, targetWidth - stringDisplayWidth(str))

\* makeProgressBar: "[", filled times "#", empty times "-", "]".
makeProgressBar(percent, width) ==
    LET pc == IF percent < 0 THEN 0 ELSE IF percent > 100 THEN 100 ELSE percent
        filled == (width * pc) \div 100
        empty == width - filled
    IN <<91>> \o RepeatRune(35, filled) \o RepeatRune(45, empty) \o <<93>>

\* fmt.Sprintf("%4d%%", progress)
SprintPercent(progress) ==
    LET digits == SprintD(progress)
    IN RepeatRune(32, 4 - Len(digits)) \o digits \o <<37>>

\* fmt.Sprintf("  Thread %d: ", workerID + 1)
ThreadPrefix(workerID) ==
    <<32, 32, 84, 104, 114, 101, 97, 100, 32>> \o SprintD(workerID + 1)
        \o <<58, 32>>

\* buildThreadLine
buildThreadLine(workerID, songName, progress, isWorking, width) ==
    LET prefix == ThreadPrefix(workerID)
        prefixWidth == Len(prefix)
    IN IF ~isWorking
       THEN LET idleText == <<73, 100, 108, 101>>
                remaining == width - prefixWidth - Len(idleText)
            IN prefix \o idleText
                   \o RepeatRune(32, IF remaining < 0 THEN 0 ELSE remaining)
       ELSE LET barWidth == 12
                percentWidth == 5
                spacing == 2
                fit == width - prefixWidth - barWidth - percentWidth - spacing
                songWidth == IF fit < 8 THEN 8 ELSE fit
            IN prefix \o padRight(songName, songWidth) \o <<32>>
                   \o makeProgressBar(progress, barWidth)
                   \o SprintPercent(progress)

\* Song names: none, a short one, a long ASCII one, a long one of two-column
\* runes, and the same after one ASCII letter.
SongNames ==
    { <<>>, <<97, 46, 102, 108, 97, 99>>, RepeatRune(97, 80),
      RepeatRune(20013, 40), <<97>> \o RepeatRune(20013, 40) }

\* Widths that hold the fixed parts and eight columns of name.
LineWidths == {40, 41, DisplayWidth}

InitLine ==
    /\ PoolIdle
    /\ RunsIdle
    /\ ConcIdle
    /\ TrackIdle
    /\ CodecIdle
    /\ FlacIdle
    /\ NamesIdle
    /\ concurrency = DefaultConcurrency
    /\ fpc = "args"
    /\ farg \in { [fn |-> "buildThreadLine", workerID |-> id, songName |-> n,
                    progress |-> pr, isWorking |-> wk, width |-> wd] :
                    id \in {0, 9}, n \in SongNames, pr \in {0, 50, 100},
                    wk \in BOOLEAN, wd \in LineWidths }
    /\ fres = <<>>
    /\ DispIdle

\* line := buildThreadLine(i, songName, progress, isWorking, width)
BuildThreadLine ==
    /\ fpc = "args"
    /\ farg.fn = "buildThreadLine"
    /\ fpc' = "done"
    /\ fres' = buildThreadLine(farg.workerID, farg.songName, farg.progress,
                               farg.isWorking, farg.width)
    /\ UNCHANGED << farg, dispVars >>
    /\ funFrame

NextLine == BuildThreadLine

SpecLine == InitLine /\ [][NextLine]_vars

LineBuilt == fpc = "done" /\ farg.fn = "buildThreadLine"

\* C40 (as stated): the line buildThreadLine returns is exactly width
\* columns wide, for an idle worker and for a working one.
C40_LineIsWidthColumns ==
    LineBuilt => stringDisplayWidth(fres) = farg.width

\* What the code does: an idle line is width columns wide; a working line is
\* one column wider, or width columns when the name was cut before a
\* two-column rune that did not fit.
C40_WorkingLineOneWider ==
    LineBuilt =>
        IF ~farg.isWorking
        THEN stringDisplayWidth(fres) = farg.width
        ELSE /\ stringDisplayWidth(fres) \in {farg.width, farg.width + 1}
             /\ (\A i \in 1..Len(farg.songName) :
                     runeWidth(farg.songName[i]) = 1)
                    => stringDisplayWidth(fres) = farg.width + 1

=============================================================================
